---- MODULE Spec2Model ----
(***************************************************************************)
(* Model of the run orchestration pipeline of automaker:                   *)
(*   - PlanApprovalService (the plan approval gate),                       *)
(*   - processStream / processContentBlock (the stream normalizer),        *)
(*   - ClaudeProvider.executeQuery (the provider's query and its failure), *)
(*   - the run scheduler with the task executor, as the design describes   *)
(*     them, calling the gate.                                             *)
(* Each component has its own specification over the shared variables; the *)
(* variables of the other components stay at their initial values.         *)
(***************************************************************************)
EXTENDS Integers, Sequences, FiniteSets, TLC

VARIABLES
    pendingApprovals,  \* PlanApprovalService.pendingApprovals: a Map, kept in insertion order
    promises,          \* the promises created by waitForApproval, by creation number
    callers,           \* for each promise, the (featureId, projectPath) of the call awaiting it
    settleCalls,       \* for each promise, how often its resolve/reject callback was invoked
    lastCall,          \* the most recent call on the gate, with its arguments and return value
    prevResolved,      \* featureId resolved successfully by the call before lastCall, or NoFeature
    handlers,          \* processStream: the names of the callbacks present in `handlers`
    genState,          \* the provider's async generator: "open", "done" or "closed"
    consumed,          \* number of messages the for-await loop has taken from the generator
    blocksEmitted,     \* number of content blocks the generator has yielded
    lastMsg,           \* the message taken most recently
    emittedTexts,      \* the text of every text block yielded so far, in emission order
    emittedResults,    \* the result field of every successful result message yielded so far
    emittedErrors,     \* the error field of every error message yielded so far
    calls,             \* the callback invocations so far, in order
    accumulatedText,   \* processStream locals
    success,
    errorMessage,
    resultMessage,
    outcome,           \* processStream: running, returned (with the StreamResult) or threw
    queries,           \* ClaudeProvider.executeQuery: the state of each call of the generator
    processEnv,        \* process.env, for the keys the provider touches
    settingsEnv,       \* what getSettingsEnv() returns
    inMemoryApiKey,    \* what getInMemoryApiKey() returns
    envAtStart,        \* process.env before the first executeQuery call
    autoLoop,          \* the scheduler's AutoLoopState
    runningFeatures,   \* the scheduler's registry: a Map from featureId to RunningFeature
    queue,             \* the ready features waiting for a free slot, oldest first
    runs,              \* every run started so far: its position in the pipeline and its events
    lastOp,            \* the most recent scheduler operation and what it returned
    wtInput,           \* WorktreeManager: the arguments of the call and what git answers
    wtCall,            \* WorktreeManager: the method that was called, or "none"
    wtResult,          \* WorktreeManager: what the call returned
    specContent,       \* parseTasksFromSpec: the spec text, as its lines
    parsed,            \* parseTasksFromSpec: whether it was called, and what it returned
    authFile,          \* GithubAuthService: the config file github-tokens.json
    authEnv,           \* process.env.GITHUB_TOKEN
    authConfig,        \* GithubAuthService.config.projects
    authLoaded,        \* GithubAuthService.loaded
    authCalls,         \* the calls on the GithubAuthService, each with its position
    emitted            \* PlanApprovalService.events: the emit call made most recently

gateVars == <<pendingApprovals, promises, callers, settleCalls, lastCall, prevResolved>>

streamVars == <<handlers, genState, consumed, blocksEmitted, lastMsg, emittedTexts,
                emittedResults, emittedErrors, calls,
                accumulatedText, success, errorMessage, resultMessage, outcome>>

providerVars == <<queries, processEnv, settingsEnv, inMemoryApiKey, envAtStart>>

schedVars == <<autoLoop, runningFeatures, queue, runs, lastOp>>

worktreeVars == <<wtInput, wtCall, wtResult>>

parserVars == <<specContent, parsed>>

authVars == <<authFile, authEnv, authConfig, authLoaded, authCalls>>

eventVars == <<emitted>>

vars == <<gateVars, streamVars, providerVars, schedVars, worktreeVars, parserVars,
          authVars, eventVars>>

\* the variables each component leaves alone
outsideGate ==
    <<streamVars, providerVars, schedVars, worktreeVars, parserVars, authVars, eventVars>>
outsideStream ==
    <<gateVars, providerVars, schedVars, worktreeVars, parserVars, authVars, eventVars>>
outsideProvider ==
    <<gateVars, streamVars, schedVars, worktreeVars, parserVars, authVars, eventVars>>
outsideSched ==
    <<streamVars, providerVars, worktreeVars, parserVars, authVars, eventVars>>
outsideWorktree ==
    <<gateVars, streamVars, providerVars, schedVars, parserVars, authVars, eventVars>>
outsideParser ==
    <<gateVars, streamVars, providerVars, schedVars, worktreeVars, authVars, eventVars>>
outsideAuth ==
    <<gateVars, streamVars, providerVars, schedVars, worktreeVars, parserVars, eventVars>>
outsideEvents ==
    <<gateVars, streamVars, providerVars, schedVars, worktreeVars, parserVars, authVars>>

----------------------------------------------------------------------------
(* Bounds and input domains *)

MaxCalls == 2           \* number of waitForApproval calls in a behaviour

Features == {"f1", "f2"}
Paths == {"/p1", "/p2"}
Undefined == "undefined"
NoFeature == "-"
\* the (approved, editedPlan, feedback) triples the approval API is called with:
\* approve, approve with an edited plan, reject with feedback
Approvals == {<<TRUE, Undefined, Undefined>>,
              <<TRUE, "plan", Undefined>>,
              <<FALSE, Undefined, "fb">>}

PromiseIds == 1..MaxCalls

----------------------------------------------------------------------------
(* JavaScript Map, as the sequence of its entries in insertion order *)

MapHas(m, k) == \E i \in 1..Len(m) : m[i].featureId = k

MapIndex(m, k) == CHOOSE i \in 1..Len(m) : m[i].featureId = k

MapGet(m, k) == m[MapIndex(m, k)]

\* Map.prototype.set: an existing key keeps its position, a new key is appended
MapSet(m, k, e) ==
    IF MapHas(m, k)
    THEN [i \in 1..Len(m) |-> IF m[i].featureId = k THEN e ELSE m[i]]
    ELSE Append(m, e)

\* a delete that was forgotten
MapDeleteNothing(m, k) == m

\* a delete that clears the map
MapDeleteAll(m, k) == <<>>

MapDelete(m, k) == SelectSeq(m, LAMBDA e : e.featureId # k)

MapKeys(m) == [i \in 1..Len(m) |-> m[i].featureId]

MapKeySet(m) == {m[i].featureId : i \in 1..Len(m)}

----------------------------------------------------------------------------
(* Promises: a settled promise ignores later resolve/reject calls *)

NoValue == [kind |-> "none"]

\* the result without the feedback
ApprovalResultNoFeedback(approved, editedPlan, feedback) ==
    [kind |-> "ApprovalResult", approved |-> approved,
     editedPlan |-> editedPlan, feedback |-> Undefined]

ApprovalResult(approved, editedPlan, feedback) ==
    [kind |-> "ApprovalResult", approved |-> approved,
     editedPlan |-> editedPlan, feedback |-> feedback]

ErrorValue(message) == [kind |-> "Error", message |-> message]

CancelledError == ErrorValue("Plan approval cancelled - feature was stopped")

NewPromise == [state |-> "pending", value |-> NoValue]

PromiseResolve(ps, w, v) ==
    IF ps[w].state = "pending"
    THEN [ps EXCEPT ![w] = [state |-> "fulfilled", value |-> v]]
    ELSE ps

PromiseReject(ps, w, err) ==
    IF ps[w].state = "pending"
    THEN [ps EXCEPT ![w] = [state |-> "rejected", value |-> err]]
    ELSE ps

Created == {w \in PromiseIds : promises[w].state # "unused"}

----------------------------------------------------------------------------
(* PlanApprovalService *)

Call(op, featureId, args, found, ret) ==
    [op |-> op, featureId |-> featureId, args |-> args, found |-> found, ret |-> ret]

NoArgs == [kind |-> "none"]

\* featureId whose resolve succeeded in the call recorded in lastCall
ResolvedBy(c) ==
    IF c.op = "resolve" /\ c.ret.success THEN c.featureId ELSE NoFeature

\* an unknown featureId reported as resolved
NoPendingResultSuccess(featureId) ==
    [kind |-> "ResolveResult", success |-> TRUE, error |-> <<>>,
     projectPath |-> Undefined]

\* the result of resolve when there is no pending entry
NoPendingResult(featureId) ==
    [kind |-> "ResolveResult", success |-> FALSE,
     error |-> <<"No pending approval for feature", featureId>>,
     projectPath |-> Undefined]

GateStart ==
    /\ pendingApprovals = <<>>
    /\ promises = [w \in PromiseIds |-> [state |-> "unused", value |-> NoValue]]
    /\ callers = [w \in PromiseIds |-> [featureId |-> NoFeature, projectPath |-> Undefined]]
    /\ settleCalls = [w \in PromiseIds |-> 0]
    /\ lastCall = Call("constructor", NoFeature, NoArgs, FALSE, [kind |-> "void"])
    /\ prevResolved = NoFeature

\* a registration that rejects the waiter it replaces
WaitForApprovalSupersedes(featureId, projectPath) ==
    /\ Cardinality(Created) < MaxCalls
    /\ LET w == Cardinality(Created) + 1
           ps == IF MapHas(pendingApprovals, featureId)
                 THEN PromiseReject(promises,
                          MapGet(pendingApprovals, featureId).waiter, CancelledError)
                 ELSE promises
       IN
        /\ promises' = [ps EXCEPT ![w] = NewPromise]
        /\ callers' = [callers EXCEPT ![w] =
                          [featureId |-> featureId, projectPath |-> projectPath]]
        /\ pendingApprovals' = MapSet(pendingApprovals, featureId,
               [waiter |-> w, featureId |-> featureId, projectPath |-> projectPath])
        /\ lastCall' = Call("waitForApproval", featureId,
               [kind |-> "wait", projectPath |-> projectPath],
               MapHas(pendingApprovals, featureId),
               [kind |-> "Promise", promise |-> w])
    /\ prevResolved' = ResolvedBy(lastCall)
    /\ UNCHANGED settleCalls

WaitForApproval(featureId, projectPath) ==
    /\ Cardinality(Created) < MaxCalls
    /\ LET w == Cardinality(Created) + 1 IN
        /\ promises' = [promises EXCEPT ![w] = NewPromise]
        /\ callers' = [callers EXCEPT ![w] =
                          [featureId |-> featureId, projectPath |-> projectPath]]
        /\ pendingApprovals' = MapSet(pendingApprovals, featureId,
               [waiter |-> w, featureId |-> featureId, projectPath |-> projectPath])
        /\ lastCall' = Call("waitForApproval", featureId,
               [kind |-> "wait", projectPath |-> projectPath],
               MapHas(pendingApprovals, featureId),
               [kind |-> "Promise", promise |-> w])
    /\ prevResolved' = ResolvedBy(lastCall)
    /\ UNCHANGED settleCalls

Resolve(featureId, approved, editedPlan, feedback) ==
    LET args == [kind |-> "resolve", approved |-> approved,
                 editedPlan |-> editedPlan, feedback |-> feedback]
    IN
    /\ IF ~MapHas(pendingApprovals, featureId)
       THEN /\ lastCall' = Call("resolve", featureId, args, FALSE,
                                 NoPendingResult(featureId))
            /\ UNCHANGED <<pendingApprovals, promises, settleCalls>>
       ELSE LET pending == MapGet(pendingApprovals, featureId) IN
            /\ promises' = PromiseResolve(promises, pending.waiter,
                               ApprovalResult(approved, editedPlan, feedback))
            /\ settleCalls' = [settleCalls EXCEPT ![pending.waiter] = @ + 1]
            /\ pendingApprovals' = MapDelete(pendingApprovals, featureId)
            /\ lastCall' = Call("resolve", featureId, args, TRUE,
                   [kind |-> "ResolveResult", success |-> TRUE,
                    error |-> <<>>,
                    projectPath |-> pending.projectPath])
    /\ prevResolved' = ResolvedBy(lastCall)
    /\ UNCHANGED callers

\* a cancel that settles the waiter with a rejection result
CancelAsRejection(featureId) ==
    /\ IF MapHas(pendingApprovals, featureId)
       THEN LET pending == MapGet(pendingApprovals, featureId) IN
            /\ promises' = PromiseResolve(promises, pending.waiter,
                               ApprovalResult(FALSE, Undefined, Undefined))
            /\ settleCalls' = [settleCalls EXCEPT ![pending.waiter] = @ + 1]
            /\ pendingApprovals' = MapDelete(pendingApprovals, featureId)
       ELSE UNCHANGED <<pendingApprovals, promises, settleCalls>>
    /\ lastCall' = Call("cancel", featureId, NoArgs,
                        MapHas(pendingApprovals, featureId), [kind |-> "void"])
    /\ prevResolved' = ResolvedBy(lastCall)
    /\ UNCHANGED callers

\* a cancel without the check for a pending entry: pending.reject on undefined raises
CancelUnchecked(featureId) ==
    /\ IF MapHas(pendingApprovals, featureId)
       THEN LET pending == MapGet(pendingApprovals, featureId) IN
            /\ promises' = PromiseReject(promises, pending.waiter, CancelledError)
            /\ settleCalls' = [settleCalls EXCEPT ![pending.waiter] = @ + 1]
            /\ pendingApprovals' = MapDelete(pendingApprovals, featureId)
            /\ lastCall' = Call("cancel", featureId, NoArgs, TRUE, [kind |-> "void"])
       ELSE /\ UNCHANGED <<pendingApprovals, promises, settleCalls>>
            /\ lastCall' = Call("cancel", featureId, NoArgs, FALSE,
                                [kind |-> "throw", error |-> "TypeError"])
    /\ prevResolved' = ResolvedBy(lastCall)
    /\ UNCHANGED callers

Cancel(featureId) ==
    /\ IF MapHas(pendingApprovals, featureId)
       THEN LET pending == MapGet(pendingApprovals, featureId) IN
            /\ promises' = PromiseReject(promises, pending.waiter, CancelledError)
            /\ settleCalls' = [settleCalls EXCEPT ![pending.waiter] = @ + 1]
            /\ pendingApprovals' = MapDelete(pendingApprovals, featureId)
       ELSE UNCHANGED <<pendingApprovals, promises, settleCalls>>
    /\ lastCall' = Call("cancel", featureId, NoArgs,
                        MapHas(pendingApprovals, featureId), [kind |-> "void"])
    /\ prevResolved' = ResolvedBy(lastCall)
    /\ UNCHANGED callers

\* a check of the map's size instead of the key
HasPendingAny(featureId) ==
    /\ lastCall' = Call("hasPending", featureId, NoArgs,
                        MapHas(pendingApprovals, featureId),
                        [kind |-> "boolean", value |-> Len(pendingApprovals) > 0])
    /\ prevResolved' = ResolvedBy(lastCall)
    /\ UNCHANGED <<pendingApprovals, promises, callers, settleCalls>>

HasPending(featureId) ==
    /\ lastCall' = Call("hasPending", featureId, NoArgs,
                        MapHas(pendingApprovals, featureId),
                        [kind |-> "boolean", value |-> MapHas(pendingApprovals, featureId)])
    /\ prevResolved' = ResolvedBy(lastCall)
    /\ UNCHANGED <<pendingApprovals, promises, callers, settleCalls>>

GetProjectPath(featureId) ==
    /\ lastCall' = Call("getProjectPath", featureId, NoArgs,
                        MapHas(pendingApprovals, featureId),
                        [kind |-> "string",
                         value |-> IF MapHas(pendingApprovals, featureId)
                                   THEN MapGet(pendingApprovals, featureId).projectPath
                                   ELSE Undefined])
    /\ prevResolved' = ResolvedBy(lastCall)
    /\ UNCHANGED <<pendingApprovals, promises, callers, settleCalls>>

GetAllPending ==
    /\ lastCall' = Call("getAllPending", NoFeature, NoArgs, FALSE,
                        [kind |-> "array", value |-> MapKeys(pendingApprovals)])
    /\ prevResolved' = ResolvedBy(lastCall)
    /\ UNCHANGED <<pendingApprovals, promises, callers, settleCalls>>

----------------------------------------------------------------------------
(* PlanApprovalService: the plan events *)

EventChannel == "auto-mode:event"

PlanContents == {"plan"}
EventPlanningModes == {"spec"}
PlanVersions == {1}
Feedbacks == {Undefined, "fb"}

NoEvent == [op |-> "none", featureId |-> NoFeature, projectPath |-> Undefined,
            channel |-> "none", payload |-> [type |-> "none"]]

EventsIdle == emitted = NoEvent

\* { type, featureId, projectPath, ...data }: a key of data replaces an earlier one
Spread(base, data) == data @@ base

\* an event without the project path
EmitPlanEventNoPath(op, eventType, featureId, projectPath, data) ==
    emitted' = [op |-> op, featureId |-> featureId, projectPath |-> projectPath,
                channel |-> EventChannel,
                payload |-> Spread([type |-> eventType, featureId |-> featureId], data)]

\* this.events.emit('auto-mode:event', {...}), called by the helper op
EmitPlanEvent(op, eventType, featureId, projectPath, data) ==
    emitted' = [op |-> op, featureId |-> featureId, projectPath |-> projectPath,
                channel |-> EventChannel,
                payload |-> Spread([type |-> eventType, featureId |-> featureId,
                                    projectPath |-> projectPath], data)]

EmitApprovalRequired(featureId, projectPath, planContent, planningMode, planVersion) ==
    EmitPlanEvent("emitApprovalRequired", "plan_approval_required", featureId,
                  projectPath,
                  [planContent |-> planContent, planningMode |-> planningMode,
                   planVersion |-> planVersion])

EmitApproved(featureId, projectPath, hasEdits, planVersion) ==
    EmitPlanEvent("emitApproved", "plan_approved", featureId, projectPath,
                  [hasEdits |-> hasEdits, planVersion |-> planVersion])

EmitRejected(featureId, projectPath, feedback) ==
    EmitPlanEvent("emitRejected", "plan_rejected", featureId, projectPath,
                  [feedback |-> feedback])

EmitAutoApproved(featureId, projectPath, planContent, planningMode) ==
    EmitPlanEvent("emitAutoApproved", "plan_auto_approved", featureId, projectPath,
                  [planContent |-> planContent, planningMode |-> planningMode])

EmitRevisionRequested(featureId, projectPath, feedback, hasEdits, planVersion) ==
    EmitPlanEvent("emitRevisionRequested", "plan_revision_requested", featureId,
                  projectPath,
                  [feedback |-> feedback, hasEdits |-> hasEdits,
                   planVersion |-> planVersion])

----------------------------------------------------------------------------
(* Stream normalizer: processStream and processContentBlock *)

MaxMsgs == 2            \* number of messages the provider yields
MaxBlocks == 2          \* number of content blocks the provider yields in all

AllHandlers == {"onText", "onToolUse", "onError", "onComplete", "onThinking"}
HandlerSets == SUBSET AllHandlers

\* JavaScript truthiness of an optional string
Truthy(str) == str # Undefined /\ str # ""

Blocks ==
    {[type |-> "text", text |-> t] : t \in {"a", "b", ""}}
    \cup {[type |-> "tool_use", name |-> n, input |-> "{}"] : n \in {"Read", Undefined}}
    \cup {[type |-> "thinking", thinking |-> t] : t \in {"hm", ""}}
    \cup {[type |-> "tool_result"]}

BlockSeqs(n) == UNION {[1..k -> Blocks] : k \in 0..n}

\* the messages with at most n content blocks
Messages(n) ==
    {[type |-> "assistant", hasContent |-> TRUE, content |-> c] : c \in BlockSeqs(n)}
    \cup {[type |-> "assistant", hasContent |-> FALSE, content |-> <<>>]}
    \cup {[type |-> "error", error |-> e] : e \in {"boom", Undefined}}
    \cup {[type |-> "result", subtype |-> "success", result |-> r] : r \in {"done", ""}}
    \cup {[type |-> "result", subtype |-> "error_max_turns", result |-> "partial"]}
    \cup {[type |-> "system"]}

NoMessage == [type |-> "none"]

\* msg.type === 'assistant' && msg.message?.content
HasContent(msg) == msg.type = "assistant" /\ msg.hasContent

NumBlocks(msg) == IF HasContent(msg) THEN Len(msg.content) ELSE 0

\* the most callbacks one message can cause
Callbacks(msg) == IF HasContent(msg) THEN Len(msg.content) ELSE 1

HandlerError == "handler failed"
GeneratorError == "stream failed"

StreamStart(hs) ==
    /\ handlers = hs
    /\ genState = "open"
    /\ consumed = 0
    /\ blocksEmitted = 0
    /\ lastMsg = NoMessage
    /\ emittedTexts = <<>>
    /\ emittedResults = <<>>
    /\ emittedErrors = <<>>
    /\ calls = <<>>
    /\ accumulatedText = ""
    /\ success = TRUE
    /\ errorMessage = Undefined
    /\ resultMessage = Undefined
    /\ outcome = [kind |-> "running"]

\* `await handlers.h(args)`: the handler is invoked; it raises when raiseAt counts down to 1
Invoke(st, handler, args) ==
    [st EXCEPT !.calls = Append(@, [handler |-> handler, args |-> args]),
               !.raised = (st.raiseAt = 1),
               !.raiseAt = IF @ > 0 THEN @ - 1 ELSE 0]

\* an assignment in place of the +=
AppendTextReplaces(acc, text) == text

\* the appendText closure of processStream: accumulatedText += text
AppendText(acc, text) == acc \o text

\* a dispatch that treats the text of a thinking block as response text
ProcessContentBlockThinkingAsText(block, hs, st) ==
    CASE block.type = "text" ->
            IF Truthy(block.text)
            THEN LET appended == [st EXCEPT !.text = AppendText(@, block.text)] IN
                 IF "onText" \in hs
                 THEN Invoke(appended, "onText", <<block.text>>)
                 ELSE appended
            ELSE st
      [] block.type = "tool_use" ->
            IF Truthy(block.name) /\ "onToolUse" \in hs
            THEN Invoke(st, "onToolUse", <<block.name, block.input>>)
            ELSE st
      [] block.type = "thinking" ->
            IF Truthy(block.thinking)
            THEN LET appended == [st EXCEPT !.text = AppendText(@, block.thinking)] IN
                 IF "onThinking" \in hs
                 THEN Invoke(appended, "onThinking", <<block.thinking>>)
                 ELSE appended
            ELSE st
      [] block.type = "tool_result" -> st
      [] OTHER -> st

\* processContentBlock
ProcessContentBlock(block, hs, st) ==
    CASE block.type = "text" ->
            IF Truthy(block.text)
            THEN LET appended == [st EXCEPT !.text = AppendText(@, block.text)] IN
                 IF "onText" \in hs
                 THEN Invoke(appended, "onText", <<block.text>>)
                 ELSE appended
            ELSE st
      [] block.type = "tool_use" ->
            IF Truthy(block.name) /\ "onToolUse" \in hs
            THEN Invoke(st, "onToolUse", <<block.name, block.input>>)
            ELSE st
      [] block.type = "thinking" ->
            IF Truthy(block.thinking) /\ "onThinking" \in hs
            THEN Invoke(st, "onThinking", <<block.thinking>>)
            ELSE st
      [] block.type = "tool_result" -> st
      [] OTHER -> st

\* for (const block of msg.message.content) await processContentBlock(...)
RECURSIVE ProcessBlocks(_, _, _)
ProcessBlocks(blocks, hs, st) ==
    IF blocks = <<>> \/ st.raised
    THEN st
    ELSE ProcessBlocks(Tail(blocks), hs, ProcessContentBlock(Head(blocks), hs, st))

TextsOf(msg) ==
    IF HasContent(msg)
    THEN LET texts == SelectSeq(msg.content, LAMBDA b : b.type = "text")
         IN [i \in 1..Len(texts) |-> texts[i].text]
    ELSE <<>>

\* a catch block that records the failure and falls through to the return
CatchReturns(message, recorded) ==
    /\ success' = FALSE
    /\ errorMessage' = IF Truthy(recorded) THEN recorded ELSE message
    /\ outcome' = [kind |-> "returned",
                   value |-> [text |-> accumulatedText, success |-> FALSE,
                              error |-> message, result |-> resultMessage]]
    /\ genState' = "closed"

\* the catch block: records the message unless one is recorded, and rethrows
Catch(message, recorded) ==
    /\ success' = FALSE
    /\ errorMessage' = IF Truthy(recorded) THEN recorded ELSE message
    /\ outcome' = [kind |-> "threw", message |-> message]
    /\ genState' = "closed"

\* a test of the type alone
IsAnyResult(msg) == msg.type = "result"

\* msg.type === 'result' && msg.subtype === 'success'
IsSuccessResult(msg) == msg.type = "result" /\ msg.subtype = "success"

\* one iteration of `for await (const msg of stream)`
Consume(msg, raiseAt) ==
    /\ outcome.kind = "running"
    /\ genState = "open"
    /\ consumed < MaxMsgs
    /\ blocksEmitted + NumBlocks(msg) <= MaxBlocks
    /\ consumed' = consumed + 1
    /\ blocksEmitted' = blocksEmitted + NumBlocks(msg)
    /\ lastMsg' = msg
    /\ emittedTexts' = emittedTexts \o TextsOf(msg)
    /\ emittedResults' = IF msg.type = "result" /\ msg.subtype = "success"
                         THEN Append(emittedResults, msg.result)
                         ELSE emittedResults
    /\ emittedErrors' = IF msg.type = "error"
                        THEN Append(emittedErrors, msg.error)
                        ELSE emittedErrors
    /\ UNCHANGED handlers
    /\ IF HasContent(msg)
       THEN LET st == ProcessBlocks(msg.content, handlers,
                          [text |-> accumulatedText, calls |-> calls,
                           raised |-> FALSE, raiseAt |-> raiseAt])
            IN /\ accumulatedText' = st.text
               /\ calls' = st.calls
               /\ UNCHANGED resultMessage
               /\ IF st.raised
                  THEN Catch(HandlerError, errorMessage)
                  ELSE UNCHANGED <<success, errorMessage, outcome, genState>>
       ELSE IF msg.type = "error"
       THEN LET message == IF Truthy(msg.error) THEN msg.error ELSE "Unknown error"
                raised == "onError" \in handlers /\ raiseAt = 1
            IN /\ calls' = IF "onError" \in handlers
                           THEN Append(calls, [handler |-> "onError", args |-> <<message>>])
                           ELSE calls
               /\ Catch(IF raised THEN HandlerError ELSE message, message)
               /\ UNCHANGED <<accumulatedText, resultMessage>>
       ELSE IF IsSuccessResult(msg)
       THEN LET result == IF Truthy(msg.result) THEN msg.result ELSE ""
                raised == "onComplete" \in handlers /\ raiseAt = 1
            IN /\ resultMessage' = result
               /\ calls' = IF "onComplete" \in handlers
                           THEN Append(calls, [handler |-> "onComplete", args |-> <<result>>])
                           ELSE calls
               /\ UNCHANGED accumulatedText
               /\ IF raised
                  THEN Catch(HandlerError, errorMessage)
                  ELSE UNCHANGED <<success, errorMessage, outcome, genState>>
       ELSE UNCHANGED <<calls, accumulatedText, resultMessage, success, errorMessage,
                        outcome, genState>>

\* what a running generator can yield next within the bounds
Yieldable ==
    IF outcome.kind = "running" /\ genState = "open" /\ consumed < MaxMsgs
    THEN Messages(MaxBlocks - blocksEmitted)
    ELSE {}

\* a return that leaves the captured result out of the StreamResult
StreamEndWithoutResult ==
    /\ outcome.kind = "running"
    /\ genState = "open"
    /\ genState' = "done"
    /\ outcome' = [kind |-> "returned",
                   value |-> [text |-> accumulatedText, success |-> success,
                              error |-> errorMessage, result |-> Undefined]]
    /\ UNCHANGED <<handlers, consumed, blocksEmitted, lastMsg, emittedTexts,
                   emittedResults, emittedErrors, calls,
                   accumulatedText, success, errorMessage, resultMessage>>

\* a return that reports a failure
StreamEndReportsFailure ==
    /\ outcome.kind = "running"
    /\ genState = "open"
    /\ genState' = "done"
    /\ outcome' = [kind |-> "returned",
                   value |-> [text |-> accumulatedText, success |-> FALSE,
                              error |-> "Unknown error", result |-> resultMessage]]
    /\ UNCHANGED <<handlers, consumed, blocksEmitted, lastMsg, emittedTexts,
                   emittedResults, emittedErrors, calls,
                   accumulatedText, success, errorMessage, resultMessage>>

\* the generator is exhausted: the loop ends and processStream returns
StreamEnd ==
    /\ outcome.kind = "running"
    /\ genState = "open"
    /\ genState' = "done"
    /\ outcome' = [kind |-> "returned",
                   value |-> [text |-> accumulatedText, success |-> success,
                              error |-> errorMessage, result |-> resultMessage]]
    /\ UNCHANGED <<handlers, consumed, blocksEmitted, lastMsg, emittedTexts,
                   emittedResults, emittedErrors, calls,
                   accumulatedText, success, errorMessage, resultMessage>>

\* the generator raises instead of yielding: the catch block rethrows
StreamRaises ==
    /\ outcome.kind = "running"
    /\ genState = "open"
    /\ Catch(GeneratorError, errorMessage)
    /\ UNCHANGED <<handlers, consumed, blocksEmitted, lastMsg, emittedTexts,
                   emittedResults, emittedErrors, calls,
                   accumulatedText, resultMessage>>

----------------------------------------------------------------------------
(* ClaudeProvider.executeQuery: the query, its message stream and its failure *)

MaxQueries == 2         \* number of executeQuery calls in a behaviour
MaxYield == 1           \* number of messages one query yields

QueryIds == 1..MaxQueries

\* what classifyError returns for the error the query raised
ErrorInfos ==
    [type : {"rate_limit", "authentication", "unknown"},
     isRateLimit : BOOLEAN,
     retryAfter : {Undefined, "60"}]

\* what getUserFriendlyErrorMessage returns for it
UserMessages == {"Rate limit exceeded", "Authentication failed"}

RateLimitTip ==
    "\n\nTip: If you're running multiple features in auto-mode, consider reducing concurrency (maxConcurrency setting) to avoid hitting rate limits."

OriginalError == "sdk error"

NoFailure == [kind |-> "none"]

\* an error that carries retryAfter whatever the classification
EnhancedErrorAlwaysRetryAfter(errorInfo, userMessage) ==
    [message |-> IF errorInfo.isRateLimit THEN userMessage \o RateLimitTip ELSE userMessage,
     originalError |-> OriginalError,
     type |-> errorInfo.type,
     hasRetryAfter |-> TRUE,
     retryAfter |-> errorInfo.retryAfter]

\* the enhancedError of the catch block; hasRetryAfter tells whether the property
\* retryAfter was assigned
EnhancedError(errorInfo, userMessage) ==
    [message |-> IF errorInfo.isRateLimit THEN userMessage \o RateLimitTip ELSE userMessage,
     originalError |-> OriginalError,
     type |-> errorInfo.type,
     hasRetryAfter |-> errorInfo.isRateLimit,
     retryAfter |-> IF errorInfo.isRateLimit THEN errorInfo.retryAfter ELSE Undefined]

\* the environment variables the provider touches; Undefined stands for a variable
\* that is absent
ApiKey == "ANTHROPIC_API_KEY"
AuthToken == "ANTHROPIC_AUTH_TOKEN"
EnvKeys == {ApiKey, AuthToken}
EnvValues == {Undefined, "", "orig"}
Envs == [EnvKeys -> EnvValues]
EmptyEnv == [k \in EnvKeys |-> Undefined]

\* getSettingsEnv(): null, or the env entries of the settings file
NoSettings == [present |-> FALSE, env |-> EmptyEnv]
Settings ==
    {NoSettings}
    \cup {[present |-> TRUE, env |-> e] :
             e \in [EnvKeys -> {Undefined, "", "s"}] \ {EmptyEnv}}
InMemoryKeys == {Undefined, "mem"}

SettingsKeys(settings) == {k \in EnvKeys : settings.env[k] # Undefined}

\* lines 113-122: every entry of the settings is saved, listed and set
AfterSettings(st, settings) ==
    IF ~settings.present THEN st
    ELSE [env |-> [k \in EnvKeys |-> IF k \in SettingsKeys(settings)
                                     THEN settings.env[k] ELSE st.env[k]],
          originalEnv |-> [k \in EnvKeys |-> IF k \in SettingsKeys(settings)
                                             THEN st.env[k] ELSE st.originalEnv[k]],
          envKeysToRestore |-> st.envKeysToRestore \cup SettingsKeys(settings)]

\* lines 123-132: the auth token of the settings becomes the API key
AfterTokenMapping(st, settings) ==
    IF settings.present /\ Truthy(settings.env[AuthToken])
                        /\ ~Truthy(settings.env[ApiKey])
    THEN [env |-> [st.env EXCEPT ![ApiKey] = settings.env[AuthToken]],
          originalEnv |-> IF st.env[ApiKey] # Undefined
                          THEN [st.originalEnv EXCEPT ![ApiKey] = st.env[ApiKey]]
                          ELSE st.originalEnv,
          envKeysToRestore |-> st.envKeysToRestore \cup {ApiKey}]
    ELSE st

\* lines 135-143: without API key in the environment the in-memory key is used
AfterInMemoryKey(st, key) ==
    IF ~Truthy(st.env[ApiKey]) /\ Truthy(key)
    THEN [env |-> [st.env EXCEPT ![ApiKey] = key],
          originalEnv |-> [st.originalEnv EXCEPT ![ApiKey] = st.env[ApiKey]],
          envKeysToRestore |-> st.envKeysToRestore \cup {ApiKey}]
    ELSE st

\* the environment setup of one call, from the environment it finds
SetupEnv(env, settings, key) ==
    AfterInMemoryKey(
        AfterTokenMapping(
            AfterSettings([env |-> env, originalEnv |-> EmptyEnv,
                           envKeysToRestore |-> {}], settings),
            settings),
        key)

\* the finally block: a listed key gets its saved value, or is deleted
RestoreEnv(env, originalEnv, envKeysToRestore) ==
    [k \in EnvKeys |-> IF k \in envKeysToRestore THEN originalEnv[k] ELSE env[k]]

ProviderStartWith(env, settings, key) ==
    /\ queries = [q \in QueryIds |->
                     [state |-> "idle", queryCalls |-> 0, yielded |-> 0,
                      failure |-> NoFailure, raised |-> <<>>,
                      originalEnv |-> EmptyEnv, envKeysToRestore |-> {}]]
    /\ processEnv = env
    /\ envAtStart = env
    /\ settingsEnv = settings
    /\ inMemoryApiKey = key

\* a process without the variables, without settings file and without in-memory key
ProviderStart == ProviderStartWith(EmptyEnv, NoSettings, Undefined)

\* executeQuery is called, sets the environment up and reaches
\* query({ prompt, options })
ExecuteQuery(q) ==
    /\ queries[q].state = "idle"
    /\ LET st == SetupEnv(processEnv, settingsEnv, inMemoryApiKey) IN
        /\ processEnv' = st.env
        /\ queries' = [queries EXCEPT ![q].state = "streaming",
                                      ![q].queryCalls = @ + 1,
                                      ![q].originalEnv = st.originalEnv,
                                      ![q].envKeysToRestore = st.envKeysToRestore]
    /\ UNCHANGED <<settingsEnv, inMemoryApiKey, envAtStart>>

\* for await (const msg of stream) yield msg
YieldMessage(q) ==
    /\ queries[q].state = "streaming"
    /\ queries[q].yielded < MaxYield
    /\ queries' = [queries EXCEPT ![q].yielded = @ + 1]
    /\ UNCHANGED <<processEnv, settingsEnv, inMemoryApiKey, envAtStart>>

\* the SDK stream is exhausted: the generator returns through the finally block
QueryEnds(q) ==
    /\ queries[q].state = "streaming"
    /\ queries' = [queries EXCEPT ![q].state = "done"]
    /\ processEnv' = RestoreEnv(processEnv, queries[q].originalEnv,
                                queries[q].envKeysToRestore)
    /\ UNCHANGED <<settingsEnv, inMemoryApiKey, envAtStart>>

\* query() or its stream raises: the catch block throws the enhanced error
QueryFails(q, errorInfo, userMessage) ==
    /\ queries[q].state = "streaming"
    /\ queries' = [queries EXCEPT
                      ![q].state = "threw",
                      ![q].failure = [kind |-> "failed", errorInfo |-> errorInfo,
                                      userMessage |-> userMessage],
                      ![q].raised = Append(@, EnhancedError(errorInfo, userMessage))]
    /\ processEnv' = RestoreEnv(processEnv, queries[q].originalEnv,
                                queries[q].envKeysToRestore)
    /\ UNCHANGED <<settingsEnv, inMemoryApiKey, envAtStart>>

----------------------------------------------------------------------------
(* Run scheduler (auto-loop controller): registry, admission and queue *)

MaxTasks == 2           \* number of tasks of a plan

RunIds == {1, 2}        \* the runs of a behaviour, in start order

ConcurrencyLimits == {1, 2}

ProjectPath == "/p1"

NoRun == [featureId |-> NoFeature, stage |-> "unused", aborted |-> FALSE, waiter |-> 0,
          tasks |-> <<>>, events |-> <<>>, progress |-> <<>>, outcome |-> "none"]

\* a run that has just been added to the registry
NewRun(featureId) == [NoRun EXCEPT !.featureId = featureId, !.stage = "planning"]

\* the RunningFeature of run r; its abortController is runs[r].aborted
RunningFeature(featureId, r) ==
    [featureId |-> featureId, projectPath |-> ProjectPath, run |-> r, isAutoMode |-> TRUE]

Started == {r \in RunIds : runs[r].stage # "unused"}

InQueue(featureId) == \E i \in 1..Len(queue) : queue[i] = featureId

Op(op, featureId, ret) == [op |-> op, featureId |-> featureId, ret |-> ret]

\* the last step was no operation of the scheduler's interface
NoOp == Op("none", NoFeature, "void")

SchedStart ==
    /\ autoLoop = [projectPath |-> Undefined, maxConcurrency |-> 0, isRunning |-> FALSE]
    /\ runningFeatures = <<>>
    /\ queue = <<>>
    /\ runs = [r \in RunIds |-> NoRun]
    /\ lastOp = NoOp

StartAutoLoop(projectPath, maxConcurrency) ==
    /\ ~autoLoop.isRunning
    /\ autoLoop' = [projectPath |-> projectPath, maxConcurrency |-> maxConcurrency,
                    isRunning |-> TRUE]
    /\ lastOp' = Op("startAutoLoop", NoFeature, "void")
    /\ UNCHANGED <<runningFeatures, queue, runs>>

\* add-on-start: the registry gets the entry of a new run
AddOnStart(featureId) ==
    LET r == Cardinality(Started) + 1 IN
    /\ runningFeatures' = MapSet(runningFeatures, featureId, RunningFeature(featureId, r))
    /\ runs' = [runs EXCEPT ![r] = NewRun(featureId)]

\* an admission that starts the run whatever the registry holds
RequestRunUnchecked(featureId) ==
    /\ autoLoop.isRunning
    /\ ~InQueue(featureId)
    /\ Cardinality(Started) + Len(queue) < Cardinality(RunIds)
    /\ AddOnStart(featureId)
    /\ lastOp' = Op("requestRun", featureId, "started")
    /\ UNCHANGED <<autoLoop, queue>>

\* the loop finds featureId ready: it starts the run, queues it when the registry is
\* at the ceiling, and refuses it when the feature is running already
RequestRun(featureId) ==
    /\ autoLoop.isRunning
    /\ ~InQueue(featureId)
    /\ Cardinality(Started) + Len(queue) < Cardinality(RunIds)
    /\ IF MapHas(runningFeatures, featureId)
       THEN /\ lastOp' = Op("requestRun", featureId, "refused")
            /\ UNCHANGED <<runningFeatures, queue, runs>>
       ELSE IF Len(runningFeatures) >= autoLoop.maxConcurrency
       THEN /\ queue' = Append(queue, featureId)
            /\ lastOp' = Op("requestRun", featureId, "queued")
            /\ UNCHANGED <<runningFeatures, runs>>
       ELSE /\ AddOnStart(featureId)
            /\ lastOp' = Op("requestRun", featureId, "started")
            /\ UNCHANGED queue
    /\ UNCHANGED autoLoop

\* an admission that does not look at the ceiling
AdmitEarly ==
    /\ autoLoop.isRunning
    /\ queue # <<>>
    /\ ~MapHas(runningFeatures, Head(queue))
    /\ AddOnStart(Head(queue))
    /\ queue' = Tail(queue)
    /\ lastOp' = Op("admit", Head(queue), "started")
    /\ UNCHANGED autoLoop

\* a slot is free: the oldest queued feature is started
Admit ==
    /\ autoLoop.isRunning
    /\ queue # <<>>
    /\ Len(runningFeatures) < autoLoop.maxConcurrency
    /\ ~MapHas(runningFeatures, Head(queue))
    /\ AddOnStart(Head(queue))
    /\ queue' = Tail(queue)
    /\ lastOp' = Op("admit", Head(queue), "started")
    /\ UNCHANGED autoLoop

\* remove-on-terminate: run r takes its own entry out of the registry
RemoveOnTerminate(registry, r) == SelectSeq(registry, LAMBDA e : e.run # r)

----------------------------------------------------------------------------
(* Run scheduler: the pipeline of one run, with the task executor *)

PlanningModes == {"skip", "auto", "approval"}

\* a plan has no task breakdown or MaxTasks tasks
TaskCounts == {0, MaxTasks}

\* what the reviewer answers: approve, or reject with feedback
Reviews == {<<TRUE, Undefined, Undefined>>, <<FALSE, Undefined, "fb">>}

Event(type, taskIndex) == [type |-> type, taskIndex |-> taskIndex]

\* an event published ahead of the earlier ones
EmitAhead(run, type, taskIndex) == [run EXCEPT !.events = <<Event(type, taskIndex)>> \o @]

Emit(run, type, taskIndex) == [run EXCEPT !.events = Append(@, Event(type, taskIndex))]

\* a TaskProgress event of the executor
TaskProgress(taskIndex, status) == [taskIndex |-> taskIndex, status |-> status]

\* a progress event published ahead of the earlier ones
ProgressAhead(run, taskIndex, status) ==
    [run EXCEPT !.progress = <<TaskProgress(taskIndex, status)>> \o @]

Progress(run, taskIndex, status) ==
    [run EXCEPT !.progress = Append(@, TaskProgress(taskIndex, status))]

\* the stage after the plan is settled: task by task, or one end-to-end prompt
ExecutionStage(run) == IF run.tasks = <<>> THEN "single_prompt" ELSE "executing"

PendingTasks(run) == {i \in 1..Len(run.tasks) : run.tasks[i] = "pending"}

NextTask(run) == CHOOSE i \in PendingTasks(run) : \A j \in PendingTasks(run) : i <= j

CurrentTask(run) == CHOOSE i \in 1..Len(run.tasks) : run.tasks[i] = "in_progress"

\* the run ends: it leaves the registry and its last event is emitted
Terminate(r, how, type) ==
    /\ runs' = [runs EXCEPT ![r] = Emit([@ EXCEPT !.stage = "done", !.outcome = how],
                                        type, 0)]
    /\ runningFeatures' = RemoveOnTerminate(runningFeatures, r)

\* the planning phase ends: no plan, a plan approved automatically, or a plan that
\* needs approval, for which the run registers at the gate and suspends
PlanningDone(r, mode, n) ==
    LET run == runs[r] IN
    /\ run.stage = "planning"
    /\ ~run.aborted
    /\ mode = "skip" => n = 0
    /\ CASE mode = "skip" ->
              /\ runs' = [runs EXCEPT ![r].stage = "single_prompt"]
              /\ UNCHANGED gateVars
         [] mode = "auto" ->
              /\ runs' = [runs EXCEPT ![r] =
                     LET planned == [run EXCEPT !.tasks = [i \in 1..n |-> "pending"]]
                     IN Emit([planned EXCEPT !.stage = ExecutionStage(planned)],
                             "plan_auto_approved", 0)]
              /\ UNCHANGED gateVars
         [] mode = "approval" ->
              /\ WaitForApproval(run.featureId, ProjectPath)
              /\ runs' = [runs EXCEPT ![r] =
                     Emit([run EXCEPT !.tasks = [i \in 1..n |-> "pending"],
                                      !.stage = "awaiting_approval",
                                      !.waiter = Cardinality(Created) + 1],
                          "plan_approval_required", 0)]
    /\ lastOp' = NoOp
    /\ UNCHANGED <<autoLoop, runningFeatures, queue>>

\* the stream of a provider call raises: the scheduler ends the run as failed
RunFails(r) ==
    /\ runs[r].stage \in {"planning", "single_prompt"}
    /\ ~runs[r].aborted
    /\ Terminate(r, "failure", "auto_mode_error")
    /\ lastOp' = NoOp
    /\ UNCHANGED <<autoLoop, queue, gateVars>>

\* the gate delivered an ApprovalResult: the run goes on, or ends on a rejection
ApprovalDelivered(r, rejectedAs) ==
    LET run == runs[r] IN
    /\ run.stage = "awaiting_approval"
    /\ promises[run.waiter].state = "fulfilled"
    /\ IF promises[run.waiter].value.approved
       THEN /\ runs' = [runs EXCEPT ![r] =
                   Emit([run EXCEPT !.stage = ExecutionStage(run)], "plan_approved", 0)]
            /\ UNCHANGED runningFeatures
       ELSE /\ runs' = [runs EXCEPT ![r] =
                   Emit(Emit([run EXCEPT !.stage = "done", !.outcome = "rejected"],
                             "plan_rejected", 0),
                        rejectedAs, 0)]
            /\ runningFeatures' = RemoveOnTerminate(runningFeatures, r)
    /\ lastOp' = NoOp
    /\ UNCHANGED <<autoLoop, queue, gateVars>>

\* an executor that does not look at the token between tasks
TaskStartIgnoresToken(r) ==
    LET run == runs[r] IN
    /\ run.stage = "executing"
    /\ PendingTasks(run) # {}
    /\ runs' = [runs EXCEPT ![r] =
           Progress(Emit([run EXCEPT !.stage = "in_task",
                                     !.tasks[NextTask(run)] = "in_progress"],
                         "auto_mode_task_started", NextTask(run)),
                    NextTask(run), "started")]
    /\ lastOp' = NoOp
    /\ UNCHANGED <<autoLoop, runningFeatures, queue, gateVars>>

\* executeTasks: the next task is started unless the token is cancelled
TaskStart(r) ==
    LET run == runs[r] IN
    /\ run.stage = "executing"
    /\ ~run.aborted
    /\ PendingTasks(run) # {}
    /\ runs' = [runs EXCEPT ![r] =
           Progress(Emit([run EXCEPT !.stage = "in_task",
                                     !.tasks[NextTask(run)] = "in_progress"],
                         "auto_mode_task_started", NextTask(run)),
                    NextTask(run), "started")]
    /\ lastOp' = NoOp
    /\ UNCHANGED <<autoLoop, runningFeatures, queue, gateVars>>

TaskCompletes(r) ==
    LET run == runs[r] IN
    /\ run.stage = "in_task"
    /\ runs' = [runs EXCEPT ![r] =
           Progress(Emit([run EXCEPT !.stage = "executing",
                                     !.tasks[CurrentTask(run)] = "completed"],
                         "auto_mode_task_complete", CurrentTask(run)),
                    CurrentTask(run), "completed")]
    /\ lastOp' = NoOp
    /\ UNCHANGED <<autoLoop, runningFeatures, queue, gateVars>>

\* a task failure after which the executor goes on with the next task
TaskFailsAndContinues(r) ==
    LET run == runs[r] IN
    /\ run.stage = "in_task"
    /\ ~run.aborted
    /\ runs' = [runs EXCEPT ![r] =
           Progress([run EXCEPT !.stage = "executing",
                                !.tasks[CurrentTask(run)] = "failed"],
                    CurrentTask(run), "failed")]
    /\ lastOp' = NoOp
    /\ UNCHANGED <<autoLoop, runningFeatures, queue, gateVars>>

\* a task failure that leaves the run in the registry
TaskFailsKeepsEntry(r) ==
    LET run == runs[r] IN
    /\ run.stage = "in_task"
    /\ ~run.aborted
    /\ runs' = [runs EXCEPT ![r] =
           Progress(Emit([run EXCEPT !.stage = "done", !.outcome = "failure",
                                     !.tasks[CurrentTask(run)] = "failed"],
                         "auto_mode_error", 0),
                    CurrentTask(run), "failed")]
    /\ lastOp' = NoOp
    /\ UNCHANGED <<autoLoop, runningFeatures, queue, gateVars>>

\* the execution of a task raises: the task is failed, the sequence halts, the run fails
TaskFails(r) ==
    LET run == runs[r] IN
    /\ run.stage = "in_task"
    /\ ~run.aborted
    /\ runs' = [runs EXCEPT ![r] =
           Progress(Emit([run EXCEPT !.stage = "done", !.outcome = "failure",
                                     !.tasks[CurrentTask(run)] = "failed"],
                         "auto_mode_error", 0),
                    CurrentTask(run), "failed")]
    /\ runningFeatures' = RemoveOnTerminate(runningFeatures, r)
    /\ lastOp' = NoOp
    /\ UNCHANGED <<autoLoop, queue, gateVars>>

\* every task is completed, or the single prompt is: the run ends in success
RunCompletes(r, phaseComplete) ==
    LET run == runs[r] IN
    /\ \/ run.stage = "executing" /\ PendingTasks(run) = {}
       \/ run.stage = "single_prompt" /\ ~phaseComplete
    /\ ~run.aborted
    /\ LET ended == [run EXCEPT !.stage = "done", !.outcome = "success"]
           last == IF phaseComplete THEN Emit(ended, "auto_mode_phase_complete", 0)
                   ELSE ended
       IN runs' = [runs EXCEPT ![r] = Emit(last, "auto_mode_feature_complete", 0)]
    /\ runningFeatures' = RemoveOnTerminate(runningFeatures, r)
    /\ lastOp' = NoOp
    /\ UNCHANGED <<autoLoop, queue, gateVars>>

\* the run sees that it was cancelled, by its token or by the gate's cancellation
\* error: it ends with the cancelled outcome, which is not reported as a failure
ObserveCancel(r) ==
    LET run == runs[r] IN
    /\ run.stage \notin {"unused", "done"}
    /\ \/ run.aborted
       \/ run.stage = "awaiting_approval" /\ promises[run.waiter].state = "rejected"
    /\ run.stage = "awaiting_approval" => promises[run.waiter].state # "pending"
    /\ Terminate(r, "cancelled", "auto_mode_feature_complete")
    /\ lastOp' = NoOp
    /\ UNCHANGED <<autoLoop, queue, gateVars>>

----------------------------------------------------------------------------
(* Run scheduler: cancellation *)

GateState == [pendingApprovals |-> pendingApprovals, promises |-> promises,
              settleCalls |-> settleCalls, lastCall |-> lastCall,
              prevResolved |-> prevResolved]

\* PlanApprovalService.cancel(featureId), as a function of the gate's state
CancelIn(g, featureId) ==
    LET called == [g EXCEPT
                     !.lastCall = Call("cancel", featureId, NoArgs,
                                       MapHas(g.pendingApprovals, featureId),
                                       [kind |-> "void"]),
                     !.prevResolved = ResolvedBy(g.lastCall)]
    IN IF MapHas(g.pendingApprovals, featureId)
       THEN LET pending == MapGet(g.pendingApprovals, featureId) IN
            [called EXCEPT
               !.promises = PromiseReject(@, pending.waiter, CancelledError),
               !.settleCalls = [@ EXCEPT ![pending.waiter] = @ + 1],
               !.pendingApprovals = MapDelete(@, featureId)]
       ELSE called

RECURSIVE CancelEach(_, _)
CancelEach(g, featureIds) ==
    IF featureIds = <<>> THEN g
    ELSE CancelEach(CancelIn(g, Head(featureIds)), Tail(featureIds))

\* the runs whose RunningFeature is in the registry
Active == {runningFeatures[i].run : i \in 1..Len(runningFeatures)}

\* a stop that empties the registry and leaves the approvals pending
StopAutoLoopKeepsApprovals ==
    /\ runs' = [r \in RunIds |->
                  IF r \in Active THEN [runs[r] EXCEPT !.aborted = TRUE] ELSE runs[r]]
    /\ runningFeatures' = <<>>
    /\ autoLoop' = [autoLoop EXCEPT !.isRunning = FALSE]
    /\ lastOp' = Op("stopAutoLoop", NoFeature, Len(runningFeatures))
    /\ UNCHANGED <<queue, gateVars>>

\* stopAutoLoop(): every token is cancelled, every pending approval of a running
\* feature is cancelled at the gate, the registry is cleared; returns the count
StopAutoLoop ==
    LET g == CancelEach(GateState, MapKeys(runningFeatures)) IN
    /\ runs' = [r \in RunIds |->
                  IF r \in Active THEN [runs[r] EXCEPT !.aborted = TRUE] ELSE runs[r]]
    /\ pendingApprovals' = g.pendingApprovals
    /\ promises' = g.promises
    /\ settleCalls' = g.settleCalls
    /\ lastCall' = g.lastCall
    /\ prevResolved' = g.prevResolved
    /\ runningFeatures' = <<>>
    /\ autoLoop' = [autoLoop EXCEPT !.isRunning = FALSE]
    /\ lastOp' = Op("stopAutoLoop", NoFeature, Len(runningFeatures))
    /\ UNCHANGED <<queue, callers>>

\* a stop of one run that leaves its entries where they are
StopFeatureTokenOnly(featureId) ==
    /\ MapHas(runningFeatures, featureId)
    /\ runs' = [r \in RunIds |->
                  IF r \in Active /\ runs[r].featureId = featureId
                  THEN [runs[r] EXCEPT !.aborted = TRUE] ELSE runs[r]]
    /\ lastOp' = Op("stopFeature", featureId, MapHas(runningFeatures, featureId))
    /\ UNCHANGED <<autoLoop, queue, runningFeatures, gateVars>>

\* one run is cancelled: its token, its pending approval, its RunningFeature
StopFeature(featureId) ==
    /\ MapHas(runningFeatures, featureId)
    /\ runs' = [r \in RunIds |->
                  IF r \in Active /\ runs[r].featureId = featureId
                  THEN [runs[r] EXCEPT !.aborted = TRUE] ELSE runs[r]]
    /\ Cancel(featureId)
    /\ runningFeatures' = MapDelete(runningFeatures, featureId)
    /\ lastOp' = Op("stopFeature", featureId, MapHas(runningFeatures, featureId))
    /\ UNCHANGED <<autoLoop, queue>>

\* a status that counts every run ever started
GetStatusCountsStarted ==
    /\ lastOp' = Op("getStatus", NoFeature,
                    [runningFeatures |-> MapKeys(runningFeatures),
                     isRunning |-> autoLoop.isRunning,
                     runningCount |-> Cardinality(Started)])
    /\ UNCHANGED <<autoLoop, runningFeatures, queue, runs, gateVars>>

\* getStatus(): a read of the registry and of the loop state
GetStatus ==
    /\ lastOp' = Op("getStatus", NoFeature,
                    [runningFeatures |-> MapKeys(runningFeatures),
                     isRunning |-> autoLoop.isRunning,
                     runningCount |-> Len(runningFeatures)])
    /\ UNCHANGED <<autoLoop, runningFeatures, queue, runs, gateVars>>

----------------------------------------------------------------------------
(* WorktreeManager: paths, as node's path module resolves them *)

MaxRecords == 2         \* number of worktrees in a listing

\* a path is absolute or relative and has segments; "" is the segment after a
\* trailing separator
AbsPath(segs) == [abs |-> TRUE, segs |-> segs]
RelPath(segs) == [abs |-> FALSE, segs |-> segs]

\* process.cwd() of the server
Cwd == AbsPath(<<"srv">>)

\* normalisation of the segments: "" and "." are dropped, ".." removes the segment
\* before it and stays at the root
RECURSIVE Normalize(_, _)
Normalize(segs, done) ==
    IF segs = <<>> THEN done
    ELSE LET seg == Head(segs) IN
         Normalize(Tail(segs),
                   CASE seg \in {"", "."} -> done
                     [] seg = ".." -> IF done = <<>> THEN done
                                      ELSE SubSeq(done, 1, Len(done) - 1)
                     [] OTHER -> Append(done, seg))

\* path.resolve(p)
PathResolve(p) ==
    AbsPath(Normalize(IF p.abs THEN p.segs ELSE Cwd.segs \o p.segs, <<>>))

\* path.resolve(from, to)
PathResolveFrom(from, to) ==
    IF to.abs THEN PathResolve(to)
    ELSE PathResolve([abs |-> from.abs, segs |-> from.segs \o to.segs])

----------------------------------------------------------------------------
(* WorktreeManager: the porcelain listing *)

\* a value that may be null: <<>> is null, <<v>> is v
Null == <<>>
Some(v) == <<v>>

\* a branch name or a ref is a sequence of pieces; RefsHeads is the piece "refs/heads/"
RefsHeads == "refs/heads/"

\* the refs git prints for a checked-out branch: refs/heads/feat-x and
\* refs/heads/a/refs/heads/b, the ref of the branch a/refs/heads/b
Refs == {<<RefsHeads, "feat-x">>, <<RefsHeads, "a/", RefsHeads, "b">>}

\* String.prototype.replace(piece, ''): the first occurrence is removed
RECURSIVE ReplaceFirst(_, _)
ReplaceFirst(name, piece) ==
    IF name = <<>> THEN <<>>
    ELSE IF Head(name) = piece THEN Tail(name)
    ELSE <<Head(name)>> \o ReplaceFirst(Tail(name), piece)

WorktreePaths == {AbsPath(<<"a", "b">>), RelPath(<<"..", "wt">>), RelPath(<<"wt">>)}

\* a worktree of the listing: its path, and its ref unless it is detached or bare
Records == [path : WorktreePaths, ref : {Null} \cup {Some(ref) : ref \in Refs}]

\* a line of the listing: what it starts with, and the rest
Line(head, rest) == [head |-> head, rest |-> rest]
BlankLine == Line("", Null)

\* the lines git prints for one worktree
RecordLines(rec) ==
    <<Line("worktree ", Some(rec.path)),
      IF rec.ref = Null THEN Line("detached", Null) ELSE Line("branch ", rec.ref[1])>>

\* stdout.split('\n') of the listing: every record is followed by an empty line,
\* the last one only when the output ends with it
RECURSIVE ListingLines(_, _)
ListingLines(recs, trailing) ==
    IF recs = <<>> THEN <<>>
    ELSE RecordLines(Head(recs))
         \o (IF Len(recs) > 1 \/ trailing THEN <<BlankLine>> ELSE <<>>)
         \o ListingLines(Tail(recs), trailing)

RECURSIVE SeqsUpTo(_, _)
SeqsUpTo(S, n) ==
    IF n = 0 THEN {<<>>}
    ELSE SeqsUpTo(S, n - 1) \cup {Append(q, x) : q \in SeqsUpTo(S, n - 1), x \in S}

Listings == SeqsUpTo(Records, MaxRecords)

\* branchName: undefined, the empty string, or a name
NoBranchName == [given |-> FALSE, name |-> <<>>]
BranchName(name) == [given |-> TRUE, name |-> name]
BranchNames == {NoBranchName, BranchName(<<>>), BranchName(<<"feat-x">>),
                BranchName(<<"feat-y">>), BranchName(<<"a/", RefsHeads, "b">>)}

\* JavaScript truthiness of a branch name that may be undefined
NameGiven(branchName) == branchName.given /\ branchName.name # <<>>

\* the project path as the caller gives it: "/p" and "/p/"
ProjectPaths == {AbsPath(<<"p">>), AbsPath(<<"p", "">>)}

WorktreeInputs ==
    [projectPath : ProjectPaths, branchName : BranchNames, useWorktrees : BOOLEAN,
     records : Listings, trailing : BOOLEAN, execFails : BOOLEAN]

----------------------------------------------------------------------------
(* WorktreeManager: findWorktreeForBranch and resolveWorkDir *)

\* what a call returns: whether it raised, its value, and how often it ran git
Returned(value, execCalls) == [raised |-> FALSE, value |-> value, execCalls |-> execCalls]
Raised(execCalls) == [raised |-> TRUE, value |-> Null, execCalls |-> execCalls]
NoResult == [raised |-> FALSE, value |-> Null, execCalls |-> 0]

\* a match returned as the listing has it
MatchedPathAsListed(projectPath, currentPath) == currentPath

\* the path returned for a match
MatchedPath(projectPath, currentPath) ==
    IF currentPath.abs THEN PathResolve(currentPath)
    ELSE PathResolveFrom(projectPath, currentPath)

\* currentPath && currentBranch
BothSet(currentPath, currentBranch) ==
    /\ currentPath # Null /\ currentPath[1].segs # <<>>
    /\ currentBranch # Null /\ currentBranch[1] # <<>>

\* the loop over the lines and the check of the last entry after it
RECURSIVE ScanLines(_, _, _, _, _)
ScanLines(lines, projectPath, branchName, currentPath, currentBranch) ==
    IF lines = <<>>
    THEN IF BothSet(currentPath, currentBranch) /\ currentBranch[1] = branchName
         THEN Some(MatchedPath(projectPath, currentPath[1]))
         ELSE Null
    ELSE LET line == Head(lines) IN
         CASE line.head = "worktree " ->
                  ScanLines(Tail(lines), projectPath, branchName, line.rest, currentBranch)
           [] line.head = "branch " ->
                  ScanLines(Tail(lines), projectPath, branchName, currentPath,
                            Some(ReplaceFirst(line.rest, RefsHeads)))
           [] line = BlankLine /\ BothSet(currentPath, currentBranch) ->
                  IF currentBranch[1] = branchName
                  THEN Some(MatchedPath(projectPath, currentPath[1]))
                  ELSE ScanLines(Tail(lines), projectPath, branchName, Null, Null)
           [] OTHER ->
                  ScanLines(Tail(lines), projectPath, branchName, currentPath,
                            currentBranch)

\* a catch clause that lets the error of git through
CatchRethrows(in) == Raised(1)

\* the catch clause: a warning is logged and null is returned
CatchWarns(in) == Returned(Null, 1)

\* findWorktreeForBranch(projectPath, branchName)
FindWorktreeForBranch(in) ==
    IF in.execFails THEN CatchWarns(in)
    ELSE Returned(ScanLines(ListingLines(in.records, in.trailing), in.projectPath,
                            in.branchName.name, Null, Null),
                  1)

\* a resolver that lists the worktrees whatever it is asked
AlwaysLooksUp(in) == TRUE

\* useWorktrees && branchName
LooksUp(in) == in.useWorktrees /\ NameGiven(in.branchName)

\* resolveWorkDir(projectPath, branchName, useWorktrees)
ResolveWorkDir(in) ==
    LET found == IF LooksUp(in) THEN FindWorktreeForBranch(in) ELSE NoResult
        worktreePath == found.value
        workDir == IF worktreePath # Null THEN PathResolve(worktreePath[1])
                   ELSE PathResolve(in.projectPath)
    IN IF found.raised THEN Raised(found.execCalls)
       ELSE Returned([workDir |-> workDir, worktreePath |-> worktreePath],
                     found.execCalls)

WorktreeIdle ==
    /\ wtInput = [projectPath |-> AbsPath(<<"p">>), branchName |-> NoBranchName,
                  useWorktrees |-> FALSE, records |-> <<>>, trailing |-> FALSE,
                  execFails |-> FALSE]
    /\ wtCall = "none"
    /\ wtResult = NoResult

WorktreeStart(in) ==
    /\ wtInput = in
    /\ wtCall = "none"
    /\ wtResult = NoResult

CallFindWorktreeForBranch ==
    /\ wtCall = "none"
    /\ wtInput.branchName.given
    /\ wtCall' = "findWorktreeForBranch"
    /\ wtResult' = FindWorktreeForBranch(wtInput)
    /\ UNCHANGED wtInput

CallResolveWorkDir ==
    /\ wtCall = "none"
    /\ wtCall' = "resolveWorkDir"
    /\ wtResult' = ResolveWorkDir(wtInput)
    /\ UNCHANGED wtInput

----------------------------------------------------------------------------
(* Task parser: the spec text *)

MaxBlockLines == 4      \* number of lines between the fences of a tasks block

\* a line is a sequence of pieces of text
Checkbox == "- [ ] "
Colon == ":"
Hashes == "##"
FileMark == "| File: "
\* the fence of a code block, and the fence with the tag tasks
Fence == "<fence>"
TasksFence == "<fence>tasks"
Whitespace == {" ", "  "}

\* the pieces that match T\d{3}
TaskIds == {"T001", "T002", "T003", "T004"}

\* a pattern that takes any id for a task id
AnyId(piece) == piece \in TaskIds \cup {"T01"}

\* T\d{3}
IsTaskId(piece) == piece \in TaskIds

\* the lines of a tasks block
TaskWithFile == <<Checkbox, "T001", Colon, " ", "Do it", " ", FileMark, "a.ts">>
TaskIndented == <<"  ", Checkbox, "T002", Colon, " ", "Do more">>
HeaderSpaced == <<Hashes, " ", "Phase 1">>
HeaderTight == <<"  ", Hashes, "Phase 2", " ">>
ShortId == <<Checkbox, "T01", Colon, " ", "Short id">>
NoDescription == <<Checkbox, "T003", Colon>>
BlockLines == {TaskWithFile, TaskIndented, HeaderSpaced, HeaderTight, ShortId,
               NoDescription}

\* the lines before and after it
TaskOutside == <<Checkbox, "T004", Colon, " ", "Outside">>
OutsideLines == {TaskOutside, HeaderSpaced}

OpeningFence == <<TasksFence>>
ClosingFence == <<Fence>>

\* a tasks block with one task, after the first
LaterBlock == <<OpeningFence, TaskOutside, ClosingFence>>

\* the spec texts: at most one line, then nothing or a tasks block that is closed or
\* not, then at most one line or a second tasks block
SpecContents ==
    LET bodies == SeqsUpTo(BlockLines, MaxBlockLines)
        blocks == {<<>>} \cup {<<OpeningFence>> \o body : body \in bodies}
                         \cup {<<OpeningFence>> \o body \o <<ClosingFence>> :
                                  body \in bodies}
        around == SeqsUpTo(OutsideLines, 1)
    IN {before \o block \o after :
           before \in around, block \in blocks, after \in around \cup {LaterBlock}}

----------------------------------------------------------------------------
(* Task parser: parseTaskLine and parseTasksFromSpec *)

RECURSIVE TrimStart(_)
TrimStart(line) ==
    IF line # <<>> /\ Head(line) \in Whitespace THEN TrimStart(Tail(line)) ELSE line

RECURSIVE TrimEnd(_)
TrimEnd(line) ==
    IF line # <<>> /\ line[Len(line)] \in Whitespace
    THEN TrimEnd(SubSeq(line, 1, Len(line) - 1))
    ELSE line

\* String.prototype.trim()
Trim(line) == TrimEnd(TrimStart(line))

From(line, k) == SubSeq(line, k, Len(line))

\* the positions where - \[ \] T\d{3}: matches
IdMatches(line) ==
    {k \in 1..(Len(line) - 2) :
        line[k] = Checkbox /\ IsTaskId(line[k + 1]) /\ line[k + 2] = Colon}

FirstOf(S) == CHOOSE k \in S : \A j \in S : k <= j

ParsedTask(id, description, filePath, phase) ==
    [id |-> id, description |-> description, filePath |-> filePath, phase |-> phase,
     status |-> "pending"]

\* the place of |\s*File:\s*(.+) after a description of at least one character and
\* before a path of at least one character
FileMatches(rest) ==
    {k \in 2..(Len(rest) - 1) :
        /\ rest[k] = FileMark
        /\ \A j \in 1..(k - 1) : rest[j] # FileMark}

\* parseTaskLine(line, currentPhase): the task of the line, or null
ParseTaskLine(line, currentPhase) ==
    IF IdMatches(line) = {} THEN Null
    ELSE LET k == FirstOf(IdMatches(line))
             id == line[k + 1]
             rest == From(line, k + 3)
         IN CASE rest = <<>> -> Null
              [] FileMatches(rest) # {} ->
                     LET f == FirstOf(FileMatches(rest)) IN
                     Some(ParsedTask(id, Trim(SubSeq(rest, 1, f - 1)),
                                     Some(Trim(From(rest, f + 1))), currentPhase))
              [] OTHER -> Some(ParsedTask(id, Trim(rest), Null, currentPhase))

HasPiece(line, piece) == \E k \in 1..Len(line) : line[k] = piece

\* where the tasks fence is found first, and where the first fence after it is
FenceOpen(content) ==
    LET opening == {i \in 1..Len(content) : HasPiece(content[i], TasksFence)}
    IN IF opening = {} THEN 0 ELSE FirstOf(opening)

FenceClose(content) ==
    LET closing == {j \in 1..Len(content) :
                       /\ j > FenceOpen(content)
                       /\ HasPiece(content[j], Fence) \/ HasPiece(content[j], TasksFence)}
    IN IF FenceOpen(content) = 0 \/ closing = {} THEN 0 ELSE FirstOf(closing)

\* a match that runs from the tasks fence to the end of the text
TasksBlockMatchToEnd(content) ==
    IF FenceClose(content) = 0 THEN Null
    ELSE Some(SubSeq(content, FenceOpen(content) + 1, Len(content)))

\* tasksBlockMatch: null, or the lines between the fences
TasksBlockMatch(content) ==
    IF FenceClose(content) = 0 THEN Null
    ELSE Some(SubSeq(content, FenceOpen(content) + 1, FenceClose(content) - 1))

\* a parser that takes no line for a phase header
PhaseMatchNever(trimmedLine) == Null

\* /^##\s*(.+)$/ on a trimmed line: null, or the phase that is named
PhaseMatch(trimmedLine) ==
    IF trimmedLine # <<>> /\ Head(trimmedLine) = Hashes /\ Trim(Tail(trimmedLine)) # <<>>
    THEN Some(Trim(Tail(trimmedLine)))
    ELSE Null

\* the loop over the lines of the block
RECURSIVE ParseBlock(_, _)
ParseBlock(lines, currentPhase) ==
    IF lines = <<>> THEN <<>>
    ELSE LET trimmedLine == Trim(Head(lines)) IN
         CASE PhaseMatch(trimmedLine) # Null ->
                  ParseBlock(Tail(lines), PhaseMatch(trimmedLine))
           [] trimmedLine # <<>> /\ Head(trimmedLine) = Checkbox ->
                  ParseTaskLine(trimmedLine, currentPhase)
                      \o ParseBlock(Tail(lines), currentPhase)
           [] OTHER -> ParseBlock(Tail(lines), currentPhase)

\* specContent.match(/- \[ \] T\d{3}:.*$/gm): of every line that matches, the text
\* from the match to the end of the line
RECURSIVE TaskLines(_)
TaskLines(content) ==
    IF content = <<>> THEN <<>>
    ELSE (IF IdMatches(Head(content)) = {} THEN <<>>
          ELSE <<From(Head(content), FirstOf(IdMatches(Head(content))))>>)
         \o TaskLines(Tail(content))

\* a fallback that stops after the first task line
ParseFallbackFirstOnly(taskLines) ==
    IF taskLines = <<>> THEN <<>> ELSE ParseTaskLine(Head(taskLines), Null)

\* the loop over the task lines of the fallback
RECURSIVE ParseFallback(_)
ParseFallback(taskLines) ==
    IF taskLines = <<>> THEN <<>>
    ELSE ParseTaskLine(Head(taskLines), Null) \o ParseFallback(Tail(taskLines))

\* parseTasksFromSpec(specContent)
ParseTasksFromSpec(content) ==
    IF TasksBlockMatch(content) = Null THEN ParseFallback(TaskLines(content))
    ELSE ParseBlock(TasksBlockMatch(content)[1], Null)

NotParsed == [called |-> FALSE, tasks |-> <<>>]

ParserIdle ==
    /\ specContent = <<>>
    /\ parsed = NotParsed

ParserStart(content) ==
    /\ specContent = content
    /\ parsed = NotParsed

CallParseTasksFromSpec ==
    /\ ~parsed.called
    /\ parsed' = [called |-> TRUE, tasks |-> ParseTasksFromSpec(specContent)]
    /\ UNCHANGED specContent

----------------------------------------------------------------------------
(* GithubAuthService: paths, tokens and the config *)

\* a path is a sequence of pieces of text; Sep is path.sep
Sep == "/"
Foo == <<Sep, "foo">>
FooBar == <<Sep, "foo", Sep, "bar">>
FooDashBar == <<Sep, "foo", "-bar">>
Qux == <<Sep, "qux">>

\* the paths tokens are configured for, and the paths tokens are asked for
ConfiguredPaths == {Foo, FooBar, FooDashBar}
TargetPaths == ConfiguredPaths \cup {Qux}

Tokens == {"t1", "t2"}
EnvTokens == {Undefined, "env-token"}

\* String.prototype.length
PieceLength(piece) ==
    CASE piece = Sep -> 1
      [] piece = "-bar" -> 4
      [] OTHER -> 3

RECURSIVE StringLength(_)
StringLength(str) ==
    IF str = <<>> THEN 0 ELSE PieceLength(Head(str)) + StringLength(Tail(str))

\* config.projects: the token of every path, undefined where there is none
Projects == [ConfiguredPaths -> Tokens \cup {Undefined}]
NoProjects == [p \in ConfiguredPaths |-> Undefined]

\* Object.keys(config.projects)
ProjectKeys(projects) == {p \in ConfiguredPaths : projects[p] # Undefined}

\* config.projects[path]
ProjectToken(projects, path) ==
    IF path \in ConfiguredPaths THEN projects[path] ELSE Undefined

\* the config file: absent, or the JSON text of a config
NoFile == [exists |-> FALSE, projects |-> NoProjects]
FileOf(projects) == [exists |-> TRUE, projects |-> projects]
AuthFiles == {NoFile} \cup {FileOf(projects) : projects \in Projects}

\* what loadConfig makes of the file: JSON.parse of its text, or the empty config
ParseFile(file) == IF file.exists THEN file.projects ELSE NoProjects

----------------------------------------------------------------------------
(* GithubAuthService: getToken, findTokenForPath, setToken *)

\* the environment before the config
OrElseEnvFirst(a, b) ==
    IF Truthy(b) THEN b ELSE IF Truthy(a) THEN a ELSE "null"

\* a || b || null
OrElse(a, b) ==
    IF Truthy(a) THEN a ELSE IF Truthy(b) THEN b ELSE "null"

\* getToken, after the config is loaded
GetTokenOf(projects, env, projectPath) ==
    OrElse(ProjectToken(projects, projectPath), env)

\* String.prototype.startsWith
StartsWith(str, prefix) ==
    Len(prefix) <= Len(str) /\ SubSeq(str, 1, Len(prefix)) = prefix

\* a test of the prefix alone
IsUnderByPrefix(targetPath, p) == StartsWith(targetPath, p)

\* targetPath.startsWith(p) && (targetPath.length === p.length ||
\*                              targetPath[p.length] === path.sep)
IsUnder(targetPath, p) ==
    /\ StartsWith(targetPath, p)
    /\ \/ StringLength(targetPath) = StringLength(p)
       \/ targetPath[Len(p) + 1] = Sep

\* the first of the keys, sorted by length descending, that targetPath is under
ClosestProject(projects, targetPath) ==
    LET under == {p \in ProjectKeys(projects) : IsUnder(targetPath, p)} IN
    IF under = {} THEN {}
    ELSE {CHOOSE p \in under : \A q \in under : StringLength(q) <= StringLength(p)}

\* findTokenForPath, after the config is loaded
FindTokenOf(projects, env, targetPath) ==
    IF Truthy(ProjectToken(projects, targetPath))
    THEN ProjectToken(projects, targetPath)
    ELSE IF ClosestProject(projects, targetPath) # {}
    THEN LET p == CHOOSE q \in ClosestProject(projects, targetPath) : TRUE
         IN projects[p]
    ELSE OrElse(env, "null")

AuthCallIds == {1, 2}
AuthOps == {"setToken", "getToken", "findTokenForPath"}

\* a call: its arguments, where it stands, the text it read or is writing, its result
NoAuthCall == [op |-> "none", path |-> <<>>, token |-> Undefined, at |-> "idle",
               text |-> NoProjects, ret |-> Undefined]

AuthIdle ==
    /\ authFile = NoFile
    /\ authEnv = Undefined
    /\ authConfig = NoProjects
    /\ authLoaded = FALSE
    /\ authCalls = [c \in AuthCallIds |-> NoAuthCall]

AuthStart(file, env) ==
    /\ authFile = file
    /\ authEnv = env
    /\ authConfig = NoProjects
    /\ authLoaded = FALSE
    /\ authCalls = [c \in AuthCallIds |-> NoAuthCall]

\* the call is made: loadConfig returns at once when the config is loaded, and
\* awaits the file otherwise
AuthCall(c, op, path, token) ==
    /\ authCalls[c].at = "idle"
    /\ op = "setToken" <=> token # Undefined
    /\ op = "setToken" => path \in ConfiguredPaths
    /\ authCalls' = [authCalls EXCEPT ![c] =
           [NoAuthCall EXCEPT !.op = op, !.path = path, !.token = token,
                              !.at = IF authLoaded THEN "loaded" ELSE "reading"]]
    /\ UNCHANGED <<authFile, authEnv, authConfig, authLoaded>>

\* loadConfig: access and readFile are done, the text of the file is there
ReadFileDone(c) ==
    /\ authCalls[c].at = "reading"
    /\ authCalls' = [authCalls EXCEPT ![c].at = "read", ![c].text = ParseFile(authFile)]
    /\ UNCHANGED <<authFile, authEnv, authConfig, authLoaded>>

\* loadConfig: this.config = JSON.parse(content); this.loaded = true
LoadConfigDone(c) ==
    /\ authCalls[c].at = "read"
    /\ authConfig' = authCalls[c].text
    /\ authLoaded' = TRUE
    /\ authCalls' = [authCalls EXCEPT ![c].at = "loaded"]
    /\ UNCHANGED <<authFile, authEnv>>

\* the call goes on after loadConfig: the reads return, setToken stores the token
\* and calls saveConfig, which awaits mkdir
AfterLoad(c) ==
    LET call == authCalls[c] IN
    /\ call.at = "loaded"
    /\ CASE call.op = "getToken" ->
              /\ authCalls' = [authCalls EXCEPT
                     ![c].at = "done",
                     ![c].ret = GetTokenOf(authConfig, authEnv, call.path)]
              /\ UNCHANGED authConfig
         [] call.op = "findTokenForPath" ->
              /\ authCalls' = [authCalls EXCEPT
                     ![c].at = "done",
                     ![c].ret = FindTokenOf(authConfig, authEnv, call.path)]
              /\ UNCHANGED authConfig
         [] call.op = "setToken" ->
              /\ authConfig' = [authConfig EXCEPT ![call.path] = call.token]
              /\ authCalls' = [authCalls EXCEPT ![c].at = "saving"]
    /\ UNCHANGED <<authFile, authEnv, authLoaded>>

\* saveConfig: writeFile is called with JSON.stringify(this.config)
WriteFileCalled(c) ==
    /\ authCalls[c].at = "saving"
    /\ authCalls' = [authCalls EXCEPT ![c].at = "writing", ![c].text = authConfig]
    /\ UNCHANGED <<authFile, authEnv, authConfig, authLoaded>>

\* saveConfig: the file is written and setToken returns
WriteFileDone(c) ==
    /\ authCalls[c].at = "writing"
    /\ authFile' = FileOf(authCalls[c].text)
    /\ authCalls' = [authCalls EXCEPT ![c].at = "done"]
    /\ UNCHANGED <<authEnv, authConfig, authLoaded>>

----------------------------------------------------------------------------
(* Specification of the plan approval gate *)

GateInit ==
    GateStart /\ StreamStart({}) /\ ProviderStart /\ SchedStart /\ WorktreeIdle /\ ParserIdle
    /\ AuthIdle /\ EventsIdle

GateNext ==
    \/ \E f \in Features, p \in Paths : WaitForApproval(f, p) /\ UNCHANGED outsideGate
    \/ \E f \in Features, r \in Approvals :
          Resolve(f, r[1], r[2], r[3]) /\ UNCHANGED outsideGate
    \/ \E f \in Features : Cancel(f) /\ UNCHANGED outsideGate
    \/ \E f \in Features : HasPending(f) /\ UNCHANGED outsideGate
    \/ \E f \in Features : GetProjectPath(f) /\ UNCHANGED outsideGate
    \/ GetAllPending /\ UNCHANGED outsideGate

GateSpec == GateInit /\ [][GateNext]_vars

(* Specification of the plan approval gate with its plan events *)

EmitNext ==
    \E f \in Features, p \in Paths :
        \/ \E c \in PlanContents, m \in EventPlanningModes, v \in PlanVersions :
              EmitApprovalRequired(f, p, c, m, v) /\ UNCHANGED outsideEvents
        \/ \E e \in BOOLEAN, v \in PlanVersions :
              EmitApproved(f, p, e, v) /\ UNCHANGED outsideEvents
        \/ \E fb \in Feedbacks : EmitRejected(f, p, fb) /\ UNCHANGED outsideEvents
        \/ \E c \in PlanContents, m \in EventPlanningModes :
              EmitAutoApproved(f, p, c, m) /\ UNCHANGED outsideEvents
        \/ \E fb \in Feedbacks, e \in BOOLEAN, v \in PlanVersions :
              EmitRevisionRequested(f, p, fb, e, v) /\ UNCHANGED outsideEvents

\* the gate calls made between the emits: one project, an approval without edits
GateEventNext ==
    \/ \E f \in Features : WaitForApproval(f, "/p1") /\ UNCHANGED outsideGate
    \/ \E f \in Features :
          Resolve(f, TRUE, Undefined, Undefined) /\ UNCHANGED outsideGate
    \/ \E f \in Features : Cancel(f) /\ UNCHANGED outsideGate
    \/ EmitNext

GateEventSpec == GateInit /\ [][GateEventNext]_vars

(* Specification of the stream normalizer *)

StreamInit ==
    /\ GateStart /\ ProviderStart /\ SchedStart /\ WorktreeIdle /\ ParserIdle
    /\ AuthIdle /\ EventsIdle
    /\ \E hs \in HandlerSets : StreamStart(hs)

StreamNext ==
    \/ \E msg \in Yieldable : \E raiseAt \in 0..Callbacks(msg) :
          Consume(msg, raiseAt) /\ UNCHANGED outsideStream
    \/ StreamEnd /\ UNCHANGED outsideStream
    \/ StreamRaises /\ UNCHANGED outsideStream

StreamSpec == StreamInit /\ [][StreamNext]_vars

(* Specification of the provider *)

ProviderInit ==
    GateStart /\ StreamStart({}) /\ ProviderStart /\ SchedStart /\ WorktreeIdle /\ ParserIdle
    /\ AuthIdle /\ EventsIdle

ProviderNext ==
    \/ \E q \in QueryIds : ExecuteQuery(q) /\ UNCHANGED outsideProvider
    \/ \E q \in QueryIds : YieldMessage(q) /\ UNCHANGED outsideProvider
    \/ \E q \in QueryIds : QueryEnds(q) /\ UNCHANGED outsideProvider
    \/ \E q \in QueryIds, errorInfo \in ErrorInfos, userMessage \in UserMessages :
          QueryFails(q, errorInfo, userMessage) /\ UNCHANGED outsideProvider

ProviderSpec == ProviderInit /\ [][ProviderNext]_vars

(* Specification of the provider's queries with the process environment *)

EnvInit ==
    /\ GateStart /\ StreamStart({}) /\ SchedStart /\ WorktreeIdle /\ ParserIdle
    /\ AuthIdle /\ EventsIdle
    /\ \E env \in Envs, settings \in Settings, key \in InMemoryKeys :
          ProviderStartWith(env, settings, key)

\* the queries, each ending or failing with a rate limit error
EnvNext ==
    \/ \E q \in QueryIds : ExecuteQuery(q) /\ UNCHANGED outsideProvider
    \/ \E q \in QueryIds : YieldMessage(q) /\ UNCHANGED outsideProvider
    \/ \E q \in QueryIds : QueryEnds(q) /\ UNCHANGED outsideProvider
    \/ \E q \in QueryIds :
          QueryFails(q, [type |-> "rate_limit", isRateLimit |-> TRUE, retryAfter |-> "60"],
                     "Rate limit exceeded")
          /\ UNCHANGED outsideProvider

EnvSpec == EnvInit /\ [][EnvNext]_vars

(* Specification of the scheduler, with the gate it calls and the approval API *)

SchedInit ==
    GateStart /\ StreamStart({}) /\ ProviderStart /\ SchedStart /\ WorktreeIdle /\ ParserIdle
    /\ AuthIdle /\ EventsIdle

\* the steps run r takes by itself
RunStep(r) ==
    \/ \E mode \in PlanningModes, n \in TaskCounts : PlanningDone(r, mode, n)
    \/ RunFails(r)
    \/ \E rejectedAs \in {"auto_mode_feature_complete", "auto_mode_error"} :
          ApprovalDelivered(r, rejectedAs)
    \/ TaskStart(r)
    \/ TaskCompletes(r)
    \/ TaskFails(r)
    \/ \E phaseComplete \in BOOLEAN : RunCompletes(r, phaseComplete)
    \/ ObserveCancel(r)

\* a call of the approval API, made for a feature shown as pending
ApiCall == lastOp' = NoOp /\ UNCHANGED <<autoLoop, runningFeatures, queue, runs>>

\* the calls made from outside: the loop controls and the approval API
SchedCall ==
    \/ \E n \in ConcurrencyLimits : StartAutoLoop(ProjectPath, n) /\ UNCHANGED gateVars
    \/ \E f \in Features : RequestRun(f) /\ UNCHANGED gateVars
    \/ StopAutoLoop
    \/ \E f \in Features : StopFeature(f)
    \/ \E f \in MapKeySet(pendingApprovals), a \in Reviews :
          Resolve(f, a[1], a[2], a[3]) /\ ApiCall
    \/ \E f \in MapKeySet(pendingApprovals) : Cancel(f) /\ ApiCall

SchedNext ==
    \/ SchedCall /\ UNCHANGED outsideSched
    \/ Admit /\ UNCHANGED <<gateVars, outsideSched>>
    \/ \E r \in RunIds : RunStep(r) /\ UNCHANGED outsideSched

SchedSpec == SchedInit /\ [][SchedNext]_vars

\* the scheduler with its status read
StatusNext ==
    \/ SchedNext
    \/ GetStatus /\ UNCHANGED outsideSched

StatusSpec == SchedInit /\ [][StatusNext]_vars

(* Specification of the GitHub auth service *)

AuthInit ==
    /\ GateStart /\ StreamStart({}) /\ ProviderStart /\ SchedStart
    /\ WorktreeIdle /\ ParserIdle /\ EventsIdle
    /\ \E file \in AuthFiles, env \in EnvTokens : AuthStart(file, env)

AuthNext ==
    \/ \E c \in AuthCallIds, op \in AuthOps, path \in TargetPaths,
          token \in Tokens \cup {Undefined} :
          AuthCall(c, op, path, token) /\ UNCHANGED outsideAuth
    \/ \E c \in AuthCallIds : ReadFileDone(c) /\ UNCHANGED outsideAuth
    \/ \E c \in AuthCallIds : LoadConfigDone(c) /\ UNCHANGED outsideAuth
    \/ \E c \in AuthCallIds : AfterLoad(c) /\ UNCHANGED outsideAuth
    \/ \E c \in AuthCallIds : WriteFileCalled(c) /\ UNCHANGED outsideAuth
    \/ \E c \in AuthCallIds : WriteFileDone(c) /\ UNCHANGED outsideAuth

AuthSpec == AuthInit /\ [][AuthNext]_vars

(* Specification of the worktree manager *)

WorktreeInit ==
    /\ GateStart /\ StreamStart({}) /\ ProviderStart /\ SchedStart /\ ParserIdle
    /\ AuthIdle /\ EventsIdle
    /\ \E in \in WorktreeInputs : WorktreeStart(in)

WorktreeNext ==
    \/ CallFindWorktreeForBranch /\ UNCHANGED outsideWorktree
    \/ CallResolveWorkDir /\ UNCHANGED outsideWorktree

WorktreeSpec == WorktreeInit /\ [][WorktreeNext]_vars

(* Specification of the task parser *)

ParserInit ==
    /\ GateStart /\ StreamStart({}) /\ ProviderStart /\ SchedStart /\ WorktreeIdle
    /\ AuthIdle /\ EventsIdle
    /\ \E content \in SpecContents : ParserStart(content)

ParserNext == CallParseTasksFromSpec /\ UNCHANGED outsideParser

ParserSpec == ParserInit /\ [][ParserNext]_vars

\* the runtime keeps every run going; nobody is bound to call the scheduler or the
\* approval API
SchedFairSpec ==
    SchedSpec /\ \A r \in RunIds : WF_vars(RunStep(r) /\ UNCHANGED outsideSched)

----------------------------------------------------------------------------
(* Properties of the plan approval gate *)

Suspended(w) == promises[w].state = "pending"

InMap(w) == \E i \in 1..Len(pendingApprovals) : pendingApprovals[i].waiter = w

WaitersOf(f) == {w \in Created : callers[w].featureId = f}

LatestWaiter(f) == CHOOSE w \in WaitersOf(f) : \A v \in WaitersOf(f) : v <= w

\* f was registered and has been neither resolved nor cancelled since
AwaitingApproval(f) == WaitersOf(f) # {} /\ Suspended(LatestWaiter(f))

IsCall(c, op, f) == c.op = op /\ c.featureId = f

\* C1: when featureId has a pending entry, resolve(featureId, approved, editedPlan,
\* feedback) fulfils the promise of the caller registered in that entry with exactly
\* {approved, editedPlan, feedback}, removes the entry in the same step and returns
\* success = true with the projectPath given at registration.
C1_ResolveDelivers ==
    [][\A f \in Features :
        (MapHas(pendingApprovals, f) /\ IsCall(lastCall', "resolve", f)) =>
            LET pending == MapGet(pendingApprovals, f) IN
            /\ callers[pending.waiter].featureId = f
            /\ Suspended(pending.waiter)
            /\ promises'[pending.waiter] =
                  [state |-> "fulfilled",
                   value |-> [kind |-> "ApprovalResult",
                              approved |-> lastCall'.args.approved,
                              editedPlan |-> lastCall'.args.editedPlan,
                              feedback |-> lastCall'.args.feedback]]
            /\ ~MapHas(pendingApprovals', f)
            /\ lastCall'.ret.success = TRUE
            /\ lastCall'.ret.projectPath = callers[pending.waiter].projectPath
      ]_vars

C1_Witness ==
    /\ lastCall.op = "resolve"
    /\ lastCall.found
    /\ lastCall.ret.success
    /\ lastCall.args.approved = FALSE
    /\ \E w \in WaitersOf(lastCall.featureId) :
          /\ promises[w].state = "fulfilled"
          /\ promises[w].value.feedback = "fb"
          /\ lastCall.ret.projectPath = callers[w].projectPath

\* C2: resolve for a featureId without a pending entry returns success = false with
\* the "no pending approval" error, settles no promise and leaves the map as it was,
\* whatever approved, editedPlan and feedback are.
C2_ResolveUnknown ==
    [][\A f \in Features :
        (~MapHas(pendingApprovals, f) /\ IsCall(lastCall', "resolve", f)) =>
            /\ lastCall'.ret.success = FALSE
            /\ lastCall'.ret.error = <<"No pending approval for feature", f>>
            /\ UNCHANGED <<pendingApprovals, promises, settleCalls>>
      ]_vars

C2_Witness ==
    /\ lastCall.op = "resolve"
    /\ ~lastCall.found
    /\ ~lastCall.ret.success
    /\ lastCall.args.editedPlan = "plan"
    /\ Len(pendingApprovals) > 0

\* C3: two resolve calls in a row for the same featureId, the first one successful:
\* the second returns success = false, delivers nothing and leaves the map unchanged.
C3_ResolveTwice ==
    [][\A f \in Features :
        (ResolvedBy(lastCall) = f /\ IsCall(lastCall', "resolve", f)) =>
            /\ lastCall'.ret.success = FALSE
            /\ UNCHANGED <<pendingApprovals, promises, settleCalls>>
      ]_vars

C3_Witness ==
    /\ lastCall.op = "resolve"
    /\ prevResolved = lastCall.featureId
    /\ ~lastCall.ret.success
    /\ \E w \in WaitersOf(lastCall.featureId) :
          promises[w].state = "fulfilled" /\ settleCalls[w] = 1

\* C4: cancel(featureId) on a pending featureId removes the entry (hasPending is then
\* false) and resumes the waiter with the cancellation error, never with an
\* ApprovalResult.
C4_CancelRejects ==
    [][\A f \in Features :
        (MapHas(pendingApprovals, f) /\ IsCall(lastCall', "cancel", f)) =>
            LET pending == MapGet(pendingApprovals, f) IN
            /\ Suspended(pending.waiter)
            /\ promises'[pending.waiter] = [state |-> "rejected", value |-> CancelledError]
            /\ promises'[pending.waiter].value.kind # "ApprovalResult"
            /\ ~MapHas(pendingApprovals', f)
      ]_vars

C4_Witness ==
    /\ lastCall.op = "cancel"
    /\ lastCall.found
    /\ ~MapHas(pendingApprovals, lastCall.featureId)
    /\ \E w \in WaitersOf(lastCall.featureId) : promises[w].state = "rejected"

\* C5: cancel(featureId) on a featureId without a pending entry does not raise,
\* settles no promise and leaves the map unchanged.
C5_CancelUnknownNoop ==
    [][\A f \in Features :
        (~MapHas(pendingApprovals, f) /\ IsCall(lastCall', "cancel", f)) =>
            /\ lastCall'.ret = [kind |-> "void"]
            /\ UNCHANGED <<pendingApprovals, promises, settleCalls>>
      ]_vars

C5_Witness ==
    /\ lastCall.op = "cancel"
    /\ ~lastCall.found
    /\ Len(pendingApprovals) > 0

\* C6: every pending entry is destroyed exactly once, by a resolve or by a cancel
\* that settles its waiter in the same step; a waiter's callbacks are invoked at most
\* once, and no entry stays in the map for a waiter that is already settled.
C6_DestroyedOnceByResolveOrCancel ==
    /\ [](\A w \in Created :
            /\ settleCalls[w] <= 1
            /\ InMap(w) => Suspended(w))
    /\ [][\A w \in Created :
            (InMap(w) /\ ~InMap(w)') =>
                /\ lastCall'.op \in {"resolve", "cancel"}
                /\ promises'[w].state \in {"fulfilled", "rejected"}
                /\ settleCalls'[w] = 1
         ]_vars

\* C7: for each featureId at most one caller is suspended awaiting approval.
C7_OneSuspendedPerFeature ==
    \A f \in Features : Cardinality({w \in WaitersOf(f) : Suspended(w)}) <= 1

\* C8: a suspended caller is resumed only by a resolve or a cancel for its featureId;
\* every other step leaves it suspended.
C8_ResumedOnlyByResolveOrCancel ==
    [][\A w \in Created :
        (Suspended(w) /\ promises'[w].state # "pending") =>
            /\ lastCall'.op \in {"resolve", "cancel"}
            /\ lastCall'.featureId = callers[w].featureId
      ]_vars

C8_Witness ==
    /\ lastCall.op \in {"resolve", "cancel"}
    /\ lastCall.found
    /\ \E w \in Created : Suspended(w) /\ callers[w].featureId # lastCall.featureId
    /\ \E w \in WaitersOf(lastCall.featureId) : ~Suspended(w)

IntrospectionOps == {"hasPending", "getProjectPath", "getAllPending"}

SeqRange(s) == {s[i] : i \in 1..Len(s)}

\* C9: hasPending(f) is true exactly when f was registered and neither resolved nor
\* cancelled since, getAllPending() lists exactly those featureIds, getProjectPath(f)
\* is the registered projectPath or undefined, and none of the three changes the map
\* or settles a promise.
C9_IntrospectionAccurate ==
    /\ [](/\ \A f \in Features : MapHas(pendingApprovals, f) <=> AwaitingApproval(f)
          /\ lastCall.op = "hasPending" =>
                lastCall.ret.value = AwaitingApproval(lastCall.featureId)
          /\ lastCall.op = "getAllPending" =>
                /\ SeqRange(lastCall.ret.value) = {f \in Features : AwaitingApproval(f)}
                /\ Len(lastCall.ret.value) = Cardinality(SeqRange(lastCall.ret.value))
          /\ lastCall.op = "getProjectPath" =>
                lastCall.ret.value =
                    IF AwaitingApproval(lastCall.featureId)
                    THEN callers[LatestWaiter(lastCall.featureId)].projectPath
                    ELSE Undefined)
    /\ [][lastCall'.op \in IntrospectionOps =>
            UNCHANGED <<pendingApprovals, promises, callers, settleCalls>>]_vars

C9_Witness ==
    /\ lastCall.op = "getAllPending"
    /\ Len(lastCall.ret.value) = 1
    /\ \E f \in Features : WaitersOf(f) # {} /\ ~AwaitingApproval(f)

----------------------------------------------------------------------------
(* Properties of the stream normalizer *)

RECURSIVE Concat(_)
Concat(strs) == IF strs = <<>> THEN "" ELSE Head(strs) \o Concat(Tail(strs))

IsPrefix(a, b) == Len(a) <= Len(b) /\ SubSeq(b, 1, Len(a)) = a

\* the arguments of the onText invocations, in order
OnTextArgs ==
    LET textCalls == SelectSeq(calls, LAMBDA c : c.handler = "onText")
    IN [i \in 1..Len(textCalls) |-> textCalls[i].args[1]]

NonEmptyTexts == SelectSeq(emittedTexts, Truthy)

CallsOf(h) == SelectSeq(calls, LAMBDA c : c.handler = h)

\* the text an error message carries
ErrorText(e) == IF Truthy(e) THEN e ELSE "Unknown error"

\* C11: once the stream has yielded an error message, onError (when given) has been
\* invoked exactly once, with the error text, as the last callback and after the
\* callbacks of every preceding block; processStream has raised instead of returning;
\* the generator is closed and no further step consumes or dispatches anything.
C11_ErrorMessageRaises ==
    /\ [](emittedErrors # <<>> =>
            /\ Len(emittedErrors) = 1
            /\ lastMsg.type = "error"
            /\ outcome.kind = "threw"
            /\ genState = "closed"
            /\ "onText" \in handlers => OnTextArgs = NonEmptyTexts
            /\ "onError" \notin handlers => CallsOf("onError") = <<>>
            /\ "onError" \in handlers =>
                  /\ Len(CallsOf("onError")) = 1
                  /\ calls[Len(calls)] =
                        [handler |-> "onError", args |-> <<ErrorText(emittedErrors[1])>>])
    /\ [][emittedErrors' # <<>> =>
            /\ IsPrefix(calls, calls')
            /\ Len(calls') <= Len(calls) + 1]_vars
    /\ [][emittedErrors = <<>>]_vars

C11_Witness ==
    /\ emittedErrors = <<"boom">>
    /\ consumed = 2
    /\ outcome = [kind |-> "threw", message |-> "boom"]
    /\ calls = <<[handler |-> "onText", args |-> <<"a">>],
                 [handler |-> "onError", args |-> <<"boom">>]>>

\* the text captured from a successful result message
ResultText(r) == IF Truthy(r) THEN r ELSE ""

\* C12: processStream has returned only if the source ended and yielded no error
\* message; the StreamResult then has success = true, text equal to the concatenation
\* of all text blocks and, when a successful result message was yielded, result equal
\* to the text captured from it, which onComplete (when given) received, once per
\* result message; this holds for every set of handlers, the empty one included.
C12_ReturnsOnlyWithoutError ==
    outcome.kind = "returned" =>
        /\ genState = "done"
        /\ emittedErrors = <<>>
        /\ outcome.value.success = TRUE
        /\ outcome.value.text = Concat(emittedTexts)
        /\ emittedResults # <<>> =>
              LET captured == ResultText(emittedResults[Len(emittedResults)])
                  completes == CallsOf("onComplete")
              IN /\ outcome.value.result = captured
                 /\ "onComplete" \in handlers =>
                       /\ Len(completes) = Len(emittedResults)
                       /\ completes[Len(completes)].args = <<captured>>
                 /\ "onComplete" \notin handlers => completes = <<>>

C12_Witness ==
    /\ outcome.kind = "returned"
    /\ handlers = {}
    /\ consumed = 2
    /\ emittedTexts = <<"a", "b">>
    /\ emittedResults = <<"done">>
    /\ outcome.value = [text |-> "ab", success |-> TRUE, error |-> Undefined,
                        result |-> "done"]

\* the callback invocation a block is dispatched to under handlers hs, if any
DispatchOf(block, hs) ==
    CASE block.type = "text" /\ Truthy(block.text) /\ "onText" \in hs ->
            <<[handler |-> "onText", args |-> <<block.text>>]>>
      [] block.type = "tool_use" /\ Truthy(block.name) /\ "onToolUse" \in hs ->
            <<[handler |-> "onToolUse", args |-> <<block.name, block.input>>]>>
      [] block.type = "thinking" /\ Truthy(block.thinking) /\ "onThinking" \in hs ->
            <<[handler |-> "onThinking", args |-> <<block.thinking>>]>>
      [] OTHER -> <<>>

RECURSIVE DispatchOfAll(_, _)
DispatchOfAll(blocks, hs) ==
    IF blocks = <<>> THEN <<>>
    ELSE DispatchOf(Head(blocks), hs) \o DispatchOfAll(Tail(blocks), hs)

\* C13: the blocks of a message are dispatched in order, each by its kind: a tool_use
\* block invokes only onToolUse(name, input), a thinking block only onThinking(text),
\* a tool_result block nothing; the callbacks of a message are appended to those made
\* before, up to the first one that raises; the accumulated text grows by the text
\* blocks only, so a message without text leaves it as it was.
C13_BlocksDispatchedByKind ==
    [][(consumed' = consumed + 1 /\ HasContent(lastMsg')) =>
          LET new == SubSeq(calls', Len(calls) + 1, Len(calls'))
              expected == DispatchOfAll(lastMsg'.content, handlers)
              texts == SelectSeq(TextsOf(lastMsg'), Truthy)
          IN /\ IsPrefix(calls, calls')
             /\ IsPrefix(new, expected)
             /\ outcome'.kind = "running" =>
                   /\ new = expected
                   /\ accumulatedText' = accumulatedText \o Concat(texts)
             /\ texts = <<>> => accumulatedText' = accumulatedText
      ]_vars

C13_Witness ==
    /\ outcome.kind = "running"
    /\ handlers = AllHandlers
    /\ consumed = 2
    /\ accumulatedText = "a"
    /\ lastMsg.type = "assistant"
    /\ lastMsg.content = <<[type |-> "tool_use", name |-> "Read", input |-> "{}"]>>
    /\ calls = <<[handler |-> "onText", args |-> <<"a">>],
                 [handler |-> "onToolUse", args |-> <<"Read", "{}">>]>>

----------------------------------------------------------------------------
(* Properties of the provider *)

\* C14: a query that failed raised exactly one error and called query() once (no
\* retry); the error's message is the user message followed by the rate-limit tip
\* exactly when the classifier says isRateLimit, and the bare user message otherwise;
\* retryAfter is attached exactly in the rate-limit case, with the classifier's value;
\* the classifier's type is attached always.
C14_QueryFailureRaisesClassifiedError ==
    \A q \in QueryIds :
        queries[q].failure # NoFailure =>
            LET info == queries[q].failure.errorInfo
                userMessage == queries[q].failure.userMessage
                error == queries[q].raised[1]
            IN /\ queries[q].state = "threw"
               /\ Len(queries[q].raised) = 1
               /\ queries[q].queryCalls = 1
               /\ info.isRateLimit => error.message = userMessage \o RateLimitTip
               /\ ~info.isRateLimit => error.message = userMessage
               /\ error.hasRetryAfter <=> info.isRateLimit
               /\ error.hasRetryAfter => error.retryAfter = info.retryAfter
               /\ error.type = info.type

C14_Witness ==
    \E q, r \in QueryIds :
        /\ queries[q].state = "threw"
        /\ queries[q].yielded = 1
        /\ queries[q].failure.errorInfo.isRateLimit
        /\ queries[q].raised[1].retryAfter = "60"
        /\ queries[q].raised[1].message = "Rate limit exceeded" \o RateLimitTip
        /\ queries[r].state = "threw"
        /\ ~queries[r].failure.errorInfo.isRateLimit
        /\ ~queries[r].raised[1].hasRetryAfter
        /\ queries[r].raised[1].type = "authentication"

----------------------------------------------------------------------------
(* Properties of the scheduler *)

IsOp(o, op) == o.op = op

\* C15: the registry never holds more entries than maxConcurrency; a run requested
\* while the registry is at the ceiling is queued and not started, the registry keeps
\* its N entries, and a queued feature is started only in a step that finds a free slot.
C15_ConcurrencyCeiling ==
    /\ [](/\ Len(runningFeatures) <= autoLoop.maxConcurrency
          /\ \A i \in 1..Len(queue) : ~MapHas(runningFeatures, queue[i]))
    /\ [][(/\ IsOp(lastOp', "requestRun")
           /\ ~MapHas(runningFeatures, lastOp'.featureId)
           /\ Len(runningFeatures) = autoLoop.maxConcurrency) =>
              /\ lastOp'.ret = "queued"
              /\ queue' = Append(queue, lastOp'.featureId)
              /\ UNCHANGED <<runningFeatures, runs>>
              /\ Len(runningFeatures') = autoLoop.maxConcurrency]_vars
    /\ [][\A f \in Features :
            (InQueue(f) /\ MapHas(runningFeatures', f)) =>
                /\ Len(runningFeatures) < autoLoop.maxConcurrency
                /\ f = Head(queue)
                /\ queue' = Tail(queue)]_vars

C15_Witness ==
    /\ lastOp = Op("admit", "f2", "started")
    /\ autoLoop.maxConcurrency = 1
    /\ MapKeys(runningFeatures) = <<"f2">>
    /\ runs[1].featureId = "f1"
    /\ runs[1].outcome = "success"

\* C16: the registry has at most one entry per featureId; a request for a featureId
\* that is running adds nothing; and a started run has its entry exactly until it
\* terminates, by success, by failure or by being cancelled.
C16_OneRunningFeaturePerFeature ==
    /\ [](/\ Cardinality(MapKeySet(runningFeatures)) = Len(runningFeatures)
          /\ \A i \in 1..Len(runningFeatures) :
                runs[runningFeatures[i].run].featureId = runningFeatures[i].featureId
          /\ \A r \in RunIds :
                r \in Active <=>
                    (runs[r].stage \notin {"unused", "done"} /\ ~runs[r].aborted))
    /\ [][(IsOp(lastOp', "requestRun") /\ MapHas(runningFeatures, lastOp'.featureId)) =>
              /\ lastOp'.ret = "refused"
              /\ UNCHANGED <<runningFeatures, queue, runs>>]_vars

C16_Witness ==
    /\ lastOp = Op("requestRun", "f1", "refused")
    /\ MapKeys(runningFeatures) = <<"f1">>
    /\ runs[1].stage = "in_task"

\* the promise on which the pending approval of featureId waits was rejected with the
\* cancellation error in this step
CancelledNow(featureId) ==
    LET w == MapGet(pendingApprovals, featureId).waiter IN
    /\ promises[w].state = "pending"
    /\ promises'[w] = [state |-> "rejected", value |-> CancelledError]

\* C17: stopAutoLoop cancels the token of every run in the registry, cancels at the
\* gate every pending approval of those features, leaves the registry empty and
\* returns the number of entries the registry had; with an empty registry it returns
\* 0, settles no promise and raises nothing.
C17_StopAutoLoop ==
    [][IsOp(lastOp', "stopAutoLoop") =>
          /\ \A r \in Active : runs'[r].aborted
          /\ \A f \in MapKeySet(runningFeatures) :
                /\ ~MapHas(pendingApprovals', f)
                /\ MapHas(pendingApprovals, f) => CancelledNow(f)
          /\ runningFeatures' = <<>>
          /\ lastOp'.ret = Len(runningFeatures)
          /\ ~autoLoop'.isRunning
          /\ runningFeatures = <<>> =>
                /\ lastOp'.ret = 0
                /\ UNCHANGED <<pendingApprovals, promises, settleCalls, runs>>
      ]_vars

C17_Witness ==
    /\ lastOp = Op("stopAutoLoop", NoFeature, 2)
    /\ runningFeatures = <<>>
    /\ pendingApprovals = <<>>
    /\ \A r \in RunIds : runs[r].aborted
    /\ runs[1].stage = "awaiting_approval"
    /\ promises[runs[1].waiter] = [state |-> "rejected", value |-> CancelledError]
    /\ runs[2].stage = "in_task"

\* C18: cancelling a run leaves nothing behind: after the step neither the gate nor
\* the registry has an entry for the featureId, a pending approval was ended with the
\* cancellation error and not with an ApprovalResult, and as long as the cancelled
\* run is winding down it gets no entry back.
C18_CancelLeavesNoOrphan ==
    /\ [][IsOp(lastOp', "stopFeature") =>
              LET f == lastOp'.featureId IN
              /\ ~MapHas(pendingApprovals', f)
              /\ ~MapHas(runningFeatures', f)
              /\ \A r \in Active : runs[r].featureId = f => runs'[r].aborted
              /\ MapHas(pendingApprovals, f) =>
                    /\ CancelledNow(f)
                    /\ promises'[MapGet(pendingApprovals, f).waiter].value.kind
                          # "ApprovalResult"
         ]_vars
    /\ [](\A r \in RunIds :
            runs[r].aborted => (r \notin Active /\ ~InMap(runs[r].waiter)))

C18_Witness ==
    /\ lastOp = Op("stopFeature", "f1", TRUE)
    /\ runs[1].featureId = "f1"
    /\ runs[1].aborted
    /\ runs[1].stage = "awaiting_approval"
    /\ promises[runs[1].waiter] = [state |-> "rejected", value |-> CancelledError]
    /\ MapKeys(runningFeatures) = <<"f2">>
    /\ MapKeys(pendingApprovals) = <<"f2">>

LastEvent(run) == run.events[Len(run.events)]

\* run r waits at the gate for an answer nobody has given
SuspendedAtGate(r) ==
    runs[r].stage = "awaiting_approval" /\ promises[runs[r].waiter].state = "pending"

\* the step in which run r fails leaves no entry of r in the registry or at the gate,
\* publishes the failure as the last event of r, and ends r as a failed run
FailureHandled ==
    [][\A r \in RunIds :
        (runs[r].outcome = "none" /\ runs'[r].outcome = "failure") =>
            /\ runs'[r].stage = "done"
            /\ r \in Active
            /\ r \notin Active'
            /\ ~MapHas(runningFeatures', runs[r].featureId)
            /\ ~MapHas(pendingApprovals', runs[r].featureId)
            /\ LastEvent(runs'[r]) = Event("auto_mode_error", 0)
            /\ Len(runs'[r].events) = Len(runs[r].events) + 1
            /\ lastOp' = NoOp
      ]_vars

\* C19 as stated: every started run eventually leaves the registry.
C19_EveryRunLeavesRegistry ==
    \A r \in RunIds : (r \in Active) ~> (r \notin Active)

\* C19 as amended: a run that fails with a stream error or a task failure is ended by
\* the scheduler in that step (entry removed, no approval left, failure event
\* published, nothing raised to the caller), and every started run eventually leaves
\* the registry unless it stays suspended at the gate because no resolve or cancel
\* ever comes.
C19_RunLeavesRegistryUnlessSuspended ==
    /\ FailureHandled
    /\ \A r \in RunIds : (r \in Active) ~> (r \notin Active \/ []SuspendedAtGate(r))

C19_Witness ==
    /\ runs[1].outcome = "failure"
    /\ runs[1].tasks = <<"completed", "failed">>
    /\ LastEvent(runs[1]) = Event("auto_mode_error", 0)
    /\ runs[2].outcome = "failure"
    /\ runs[2].tasks = <<>>
    /\ runningFeatures = <<>>
    /\ pendingApprovals = <<>>

\* the place of an event in the order of a run's events
Rank(e) ==
    CASE e.type = "plan_approval_required" -> 1
      [] e.type \in {"plan_approved", "plan_rejected", "plan_auto_approved"} -> 2
      [] e.type \in {"auto_mode_task_started", "auto_mode_task_complete"} -> 3
      [] e.type = "auto_mode_phase_complete" -> 4
      [] e.type \in {"auto_mode_feature_complete", "auto_mode_error"} -> 5

EventsOfRank(run, k) == SelectSeq(run.events, LAMBDA e : Rank(e) = k)

\* started and complete of task 1, then of task 2, and so on
TaskPairs(n) ==
    [k \in 1..(2 * n) |->
        IF k % 2 = 1 THEN Event("auto_mode_task_started", (k + 1) \div 2)
        ELSE Event("auto_mode_task_complete", k \div 2)]

C21_GetStatusPureRead ==
    [][IsOp(lastOp', "getStatus") =>
          LET status == lastOp'.ret IN
          /\ UNCHANGED <<autoLoop, runningFeatures, queue, runs, gateVars>>
          /\ status.runningFeatures = MapKeys(runningFeatures)
          /\ status.runningCount = Len(status.runningFeatures)
          /\ status.isRunning = autoLoop.isRunning
          /\ (IsOp(lastOp, "stopAutoLoop") \/ (Started = {} /\ ~autoLoop.isRunning)) =>
                status = [runningFeatures |-> <<>>, isRunning |-> FALSE,
                          runningCount |-> 0]
      ]_vars

C21_Witness ==
    /\ IsOp(lastOp, "getStatus")
    /\ lastOp.ret = [runningFeatures |-> <<>>, isRunning |-> FALSE, runningCount |-> 0]
    /\ \A r \in RunIds : runs[r].aborted /\ runs[r].stage = "in_task"

\* the TaskProgress events of a run are started(1), terminal(1), started(2), ... :
\* one started event per started task, at most one terminal event after it, in array
\* order, and no started event before the terminal event of the task before
ProgressInOrder(run) ==
    \A k \in 1..Len(run.progress) :
        LET e == run.progress[k] IN
        IF k % 2 = 1
        THEN e = TaskProgress((k + 1) \div 2, "started")
        ELSE e.taskIndex = k \div 2 /\ e.status \in {"completed", "failed"}

\* the tasks that were started are those with a started event
StartedTasks(run) == {i \in 1..Len(run.tasks) : run.tasks[i] # "pending"}

TerminalEvents(run, i) ==
    {k \in 1..Len(run.progress) :
        run.progress[k].taskIndex = i /\ run.progress[k].status # "started"}

C23_FailureHaltsTheSequence ==
    \A r \in RunIds :
        LET run == runs[r] IN
        \A i \in 1..Len(run.tasks) :
            run.tasks[i] = "failed" =>
                /\ run.progress[Len(run.progress)] = TaskProgress(i, "failed")
                /\ run.stage = "done" /\ run.outcome = "failure"
                /\ \A j \in 1..Len(run.tasks) :
                      /\ j < i => run.tasks[j] = "completed"
                      /\ j > i => /\ run.tasks[j] = "pending"
                                  /\ \A k \in 1..Len(run.progress) :
                                        run.progress[k].taskIndex # j

C23_Witness ==
    \E r \in RunIds :
        /\ runs[r].tasks = <<"failed", "pending">>
        /\ runs[r].progress = <<TaskProgress(1, "started"), TaskProgress(1, "failed")>>
        /\ LastEvent(runs[r]).type = "auto_mode_error"

\* C24: once the token of a run is cancelled while the executor runs its tasks, the
\* executor starts no further task and marks no task failed; the run ends with the
\* outcome cancelled, which is neither the failure outcome nor reported by the
\* failure event.
C24_CancelledIsNotFailed ==
    [][\A r \in RunIds :
          runs[r].aborted /\ runs[r].stage \in {"executing", "in_task"} =>
              /\ StartedTasks(runs'[r]) = StartedTasks(runs[r])
              /\ \A i \in 1..Len(runs[r].tasks) :
                    runs'[r].tasks[i] = "failed" => runs[r].tasks[i] = "failed"
              /\ \A k \in 1..Len(runs'[r].progress) :
                    k > Len(runs[r].progress) => runs'[r].progress[k].status = "completed"
              /\ runs'[r].stage = "done" =>
                    /\ runs'[r].outcome = "cancelled"
                    /\ LastEvent(runs'[r]).type # "auto_mode_error"
      ]_vars

\* a run cancelled while its first task was in flight
C24_Witness ==
    \E r \in RunIds :
        /\ runs[r].aborted
        /\ runs[r].stage = "done" /\ runs[r].outcome = "cancelled"
        /\ Len(runs[r].tasks) = 2
        /\ runs[r].tasks[1] = "in_progress"
        /\ runs[r].tasks[2] = "pending"

----------------------------------------------------------------------------
(* Properties of the worktree manager *)

\* the branch of a ref: the ref without the prefix refs/heads/
BranchOf(ref) == IF ref # <<>> /\ Head(ref) = RefsHeads THEN Tail(ref) ELSE ref

\* the worktrees of the listing that have branch `name` checked out
WorktreesOf(in, name) ==
    {i \in 1..Len(in.records) :
        in.records[i].ref # Null /\ BranchOf(in.records[i].ref[1]) = name}

\* a path that is absolute and has no "", "." or ".." segment
IsResolved(p) == p.abs /\ \A k \in 1..Len(p.segs) : p.segs[k] \notin {"", ".", ".."}

\* the absolute path of a listed path: itself, or taken from the project path
AbsoluteOf(in, listed) ==
    IF listed.abs THEN PathResolve(listed)
    ELSE PathResolve(AbsPath(in.projectPath.segs \o listed.segs))

ResolveWorkDirCalled == wtCall = "resolveWorkDir"

\* the statement as it is worded: the workDir is the projectPath that was given
C25_WorkDirIsProjectPathAsGiven ==
    ResolveWorkDirCalled /\ ~(wtInput.useWorktrees /\ NameGiven(wtInput.branchName)) =>
        /\ ~wtResult.raised
        /\ wtResult.value.workDir = wtInput.projectPath
        /\ wtResult.value.worktreePath = Null
        /\ wtResult.execCalls = 0

\* C25: whenever useWorktrees is false or no branchName is given, resolveWorkDir
\* returns worktreePath = null and workDir = the resolved form of projectPath
\* (absolute, without "", "." and ".." segments), which is projectPath itself when
\* projectPath is resolved already; and it does not list the worktrees.
C25_NoLookupWithoutBranchOrWorktrees ==
    ResolveWorkDirCalled /\ ~(wtInput.useWorktrees /\ NameGiven(wtInput.branchName)) =>
        /\ ~wtResult.raised
        /\ wtResult.value.workDir = PathResolve(wtInput.projectPath)
        /\ IsResolved(wtResult.value.workDir)
        /\ IsResolved(wtInput.projectPath) =>
              wtResult.value.workDir = wtInput.projectPath
        /\ wtResult.value.worktreePath = Null
        /\ wtResult.execCalls = 0

\* worktrees are off although the branch has a worktree in the listing
C25_Witness ==
    /\ ResolveWorkDirCalled
    /\ ~wtInput.useWorktrees /\ ~wtInput.execFails
    /\ wtInput.branchName = BranchName(<<"feat-x">>)
    /\ WorktreesOf(wtInput, <<"feat-x">>) # {}
    /\ wtResult = Returned([workDir |-> AbsPath(<<"p">>), worktreePath |-> Null], 0)

\* the lookup of resolveWorkDir finds nothing: no worktree has the branch, or git fails
LookupFindsNothing ==
    /\ wtInput.useWorktrees /\ NameGiven(wtInput.branchName)
    /\ wtInput.execFails \/ WorktreesOf(wtInput, wtInput.branchName.name) = {}

\* the worktreePath is null or the path of a worktree that has the branch, and then
\* the workDir is that path
NullOrMatched ==
    \/ wtResult.value.worktreePath = Null
    \/ /\ \E i \in WorktreesOf(wtInput, wtInput.branchName.name) :
             wtResult.value.worktreePath =
                 Some(AbsoluteOf(wtInput, wtInput.records[i].path))
       /\ wtResult.value.workDir = wtResult.value.worktreePath[1]

\* the statement as it is worded: the fallback workDir is the projectPath as given
C26_FallbackIsProjectPathAsGiven ==
    ResolveWorkDirCalled =>
        /\ ~wtResult.raised
        /\ LookupFindsNothing =>
              /\ wtResult.value.workDir = wtInput.projectPath
              /\ wtResult.value.worktreePath = Null
        /\ NullOrMatched

\* C26: when worktrees are requested but no listed worktree has the requested branch,
\* or the listing command fails, resolveWorkDir does not raise and returns
\* worktreePath = null and workDir = the resolved form of projectPath (projectPath
\* itself when it is resolved already); for every input worktreePath is null or the
\* path of a worktree that has the branch, and then workDir equals it.
C26_DegradeNotFail ==
    ResolveWorkDirCalled =>
        /\ ~wtResult.raised
        /\ LookupFindsNothing =>
              /\ wtResult.value.workDir = PathResolve(wtInput.projectPath)
              /\ IsResolved(wtInput.projectPath) =>
                    wtResult.value.workDir = wtInput.projectPath
              /\ wtResult.value.worktreePath = Null
        /\ NullOrMatched

\* git fails although the listing would have had the branch
C26_Witness ==
    /\ ResolveWorkDirCalled
    /\ wtInput.useWorktrees /\ wtInput.execFails
    /\ wtInput.branchName = BranchName(<<"feat-x">>)
    /\ WorktreesOf(wtInput, <<"feat-x">>) # {}
    /\ wtResult = Returned([workDir |-> AbsPath(<<"p">>), worktreePath |-> Null], 1)

\* C27: findWorktreeForBranch returns the path of a listed worktree whose branch (its
\* ref without the prefix refs/heads/) equals branchName, made absolute against
\* projectPath when it is relative, and null when no worktree has that branch; a
\* worktree without a branch line never matches, and neither its path nor the branch
\* of a neighbour is used for it; the end of the listing ends the last record with or
\* without an empty line.
C27_FindWorktreeForBranch ==
    wtCall = "findWorktreeForBranch" /\ ~wtInput.execFails =>
        LET matching == WorktreesOf(wtInput, wtInput.branchName.name) IN
        /\ ~wtResult.raised
        /\ matching = {} => wtResult.value = Null
        /\ matching # {} =>
              /\ \E i \in matching :
                    wtResult.value = Some(AbsoluteOf(wtInput, wtInput.records[i].path))
              /\ IsResolved(wtResult.value[1])

\* a detached worktree comes before the one that has the branch, whose path is
\* relative and whose record ends with the listing
C27_Witness ==
    /\ wtCall = "findWorktreeForBranch"
    /\ ~wtInput.execFails /\ ~wtInput.trailing
    /\ wtInput.projectPath = AbsPath(<<"p", "">>)
    /\ wtInput.branchName = BranchName(<<"a/", RefsHeads, "b">>)
    /\ wtInput.records = <<[path |-> AbsPath(<<"a", "b">>), ref |-> Null],
                           [path |-> RelPath(<<"..", "wt">>),
                            ref |-> Some(<<RefsHeads, "a/", RefsHeads, "b">>)]>>
    /\ wtResult = Returned(Some(AbsPath(<<"wt">>)), 1)

----------------------------------------------------------------------------
(* Properties of the task parser *)

\* the k-th smallest member of a set of line numbers
Nth(S, k) == CHOOSE i \in S : Cardinality({j \in S : j <= i}) = k

\* the positions of a line where the checkbox marker is followed by T###:
ValidIdAt(line) ==
    {k \in 1..(Len(line) - 2) :
        line[k] = Checkbox /\ line[k + 1] \in TaskIds /\ line[k + 2] = Colon}

\* a well-formed task line of a block: - [ ] T###: and a description
WellFormedTaskLine(line) ==
    LET t == Trim(line) IN Len(t) >= 4 /\ 1 \in ValidIdAt(t)

\* a phase header of a block: ## and a name
PhaseHeader(line) ==
    LET t == Trim(line) IN Len(t) >= 2 /\ t[1] = Hashes

\* the phase of line i of a block: the name of the last header before it, if any
PhaseOf(body, i) ==
    LET headers == {h \in 1..(i - 1) : PhaseHeader(body[h])} IN
    IF headers = {} THEN Null
    ELSE Some(Trim(Tail(Trim(body[Nth(headers, Cardinality(headers))]))))

HasTasksBlock(content) == TasksBlockMatch(content) # Null

\* C28: for a spec text with a fenced tasks block, parseTasksFromSpec returns one task
\* per well-formed task line of the block, in the order of the lines, each with the
\* id of its line (T and three digits), the status pending and the phase of the last
\* header before it in the block, or no phase before the first header.
C28_TasksOfTheBlock ==
    parsed.called /\ HasTasksBlock(specContent) =>
        LET body == TasksBlockMatch(specContent)[1]
            taskLines == {i \in 1..Len(body) : WellFormedTaskLine(body[i])}
        IN /\ Len(parsed.tasks) = Cardinality(taskLines)
           /\ \A k \in 1..Len(parsed.tasks) :
                 LET i == Nth(taskLines, k) IN
                 /\ parsed.tasks[k].id = Trim(body[i])[2]
                 /\ parsed.tasks[k].id \in TaskIds
                 /\ parsed.tasks[k].status = "pending"
                 /\ parsed.tasks[k].phase = PhaseOf(body, i)

C28_Witness ==
    /\ parsed.called
    /\ specContent = <<TaskOutside, OpeningFence, TaskIndented, HeaderSpaced,
                       TaskWithFile, HeaderTight, ClosingFence>>
    /\ parsed.tasks = <<ParsedTask("T002", <<"Do more">>, Null, Null),
                        ParsedTask("T001", <<"Do it">>, Some(<<"a.ts">>),
                                   Some(<<"Phase 1">>))>>

\* the lines that match the checkbox-plus-ID pattern
PatternLines(content) == {i \in 1..Len(content) : ValidIdAt(content[i]) # {}}

\* those of them that have at least one character after the colon
DescribedLines(content) ==
    {i \in PatternLines(content) :
        Len(content[i]) > Nth(ValidIdAt(content[i]), 1) + 2}

\* the tasks are those of the lines `lines`, in order and without phase
FallbackTasksOf(lines) ==
    /\ Len(parsed.tasks) = Cardinality(lines)
    /\ \A k \in 1..Len(parsed.tasks) :
          LET line == specContent[Nth(lines, k)] IN
          /\ parsed.tasks[k].id = line[Nth(ValidIdAt(line), 1) + 1]
          /\ parsed.tasks[k].phase = Null
          /\ parsed.tasks[k].status = "pending"

\* the statement as it is worded: a task for every line that matches the pattern
C29_TaskForEveryPatternLine ==
    parsed.called /\ ~HasTasksBlock(specContent) =>
        FallbackTasksOf(PatternLines(specContent))

\* C29: for a spec text without fenced tasks block, parseTasksFromSpec scans the whole
\* content and returns, in the order of the lines, one task for every line that
\* matches the checkbox-plus-ID pattern and has at least one character after the
\* colon, each without phase even when header lines precede it.
C29_FallbackTasks ==
    parsed.called /\ ~HasTasksBlock(specContent) =>
        FallbackTasksOf(DescribedLines(specContent))

\* a header, a fence that is never closed, and two task lines
C29_Witness ==
    /\ parsed.called
    /\ specContent = <<HeaderSpaced, OpeningFence, TaskIndented, TaskOutside>>
    /\ parsed.tasks = <<ParsedTask("T002", <<"Do more">>, Null, Null),
                        ParsedTask("T004", <<"Outside">>, Null, Null)>>

\* a line with the checkbox marker and without a valid T### id
MalformedLine(line) == HasPiece(line, Checkbox) /\ ValidIdAt(line) = {}

WithoutMalformedLines(content) ==
    SelectSeq(content, LAMBDA line : ~MalformedLine(line))

\* C30: a line with the checkbox marker and without a valid T### id gives no task,
\* and the tasks returned, with their phases, are those returned for the text without
\* such lines; a text without any line that has a valid id and a description gives
\* the empty list.
C30_MalformedLinesAreDropped ==
    parsed.called =>
        /\ parsed.tasks = ParseTasksFromSpec(WithoutMalformedLines(specContent))
        /\ \A k \in 1..Len(parsed.tasks) : parsed.tasks[k].id \in TaskIds
        /\ DescribedLines(specContent) = {} => parsed.tasks = <<>>

\* a malformed line between a header and the task the header applies to
C30_Witness ==
    /\ parsed.called
    /\ specContent = <<OpeningFence, HeaderTight, ShortId, TaskWithFile, ClosingFence>>
    /\ parsed.tasks = <<ParsedTask("T001", <<"Do it">>, Some(<<"a.ts">>),
                                   Some(<<"Phase 2">>))>>

\* a line that is a fence, with the tag tasks or without
IsFenceLine(line) == line = OpeningFence \/ line = ClosingFence

\* the line of the first tasks fence that has a fence after it, or 0
FirstBlockStart(content) ==
    LET starts == {i \in 1..Len(content) :
                      /\ content[i] = OpeningFence
                      /\ \E j \in (i + 1)..Len(content) : IsFenceLine(content[j])}
    IN IF starts = {} THEN 0 ELSE Nth(starts, 1)

\* the line of the fence that ends the first tasks block
FirstBlockEnd(content) ==
    Nth({j \in (FirstBlockStart(content) + 1)..Len(content) : IsFenceLine(content[j])},
        1)

\* the well-formed task lines inside the first tasks block, and those elsewhere
InFirstBlock(content) ==
    {i \in (FirstBlockStart(content) + 1)..(FirstBlockEnd(content) - 1) :
        WellFormedTaskLine(content[i])}

Elsewhere(content) ==
    {i \in 1..Len(content) :
        /\ WellFormedTaskLine(content[i])
        /\ i < FirstBlockStart(content) \/ i > FirstBlockEnd(content)}

\* C37: when the spec text has a fenced tasks block, parseTasksFromSpec returns the
\* tasks of the first such block and no others: one task per well-formed task line
\* of that block, none for a task line before the block, after it or in a later
\* tasks block, and the empty list when the first block has no task line.
C37_OnlyTheFirstBlock ==
    parsed.called /\ FirstBlockStart(specContent) # 0 =>
        LET inside == InFirstBlock(specContent) IN
        /\ Len(parsed.tasks) = Cardinality(inside)
        /\ \A k \in 1..Len(parsed.tasks) :
              parsed.tasks[k].id = Trim(specContent[Nth(inside, k)])[2]
        /\ \A i \in Elsewhere(specContent) :
              (\A j \in inside : Trim(specContent[j])[2] # Trim(specContent[i])[2])
                  => \A k \in 1..Len(parsed.tasks) :
                        parsed.tasks[k].id # Trim(specContent[i])[2]
        /\ inside = {} => parsed.tasks = <<>>

\* a task line, an empty tasks block, and a second tasks block with a task line
C37_Witness ==
    /\ parsed.called
    /\ specContent = <<TaskOutside, OpeningFence, ClosingFence,
                       OpeningFence, TaskOutside, ClosingFence>>
    /\ Elsewhere(specContent) = {1, 5}
    /\ parsed.tasks = <<>>

\* a task in the first block, a task in the second
C37_WitnessTwoBlocks ==
    /\ parsed.called
    /\ specContent = <<OpeningFence, TaskIndented, ClosingFence,
                       OpeningFence, TaskOutside, ClosingFence>>
    /\ parsed.tasks = <<ParsedTask("T002", <<"Do more">>, Null, Null)>>

----------------------------------------------------------------------------
(* Properties of the GitHub auth service *)

\* call c returns in this step
Returns(c, op) ==
    authCalls[c].op = op /\ authCalls[c].at # "done" /\ authCalls'[c].at = "done"

\* the environment value, or null
EnvOrNull == IF authEnv # Undefined THEN authEnv ELSE "null"

\* C31: getToken(projectPath) returns the token the config has for exactly that path
\* when it has one, whatever GITHUB_TOKEN is; otherwise the value of GITHUB_TOKEN
\* when it is set; otherwise null.
C31_GetTokenPrefersConfig ==
    [][\A c \in AuthCallIds :
          Returns(c, "getToken") =>
              LET path == authCalls[c].path
                  stored == IF path \in ConfiguredPaths THEN authConfig[path]
                            ELSE Undefined
              IN authCalls'[c].ret = IF stored # Undefined THEN stored ELSE EnvOrNull
      ]_vars

\* the config has a token for the path and GITHUB_TOKEN is set
C31_Witness ==
    \E c \in AuthCallIds :
        /\ authCalls[c].op = "getToken" /\ authCalls[c].at = "done"
        /\ authCalls[c].path = Foo
        /\ authConfig[Foo] = "t1"
        /\ authEnv = "env-token"
        /\ authCalls[c].ret = "t1"

\* the configured paths that are ancestor directories of the target: the target goes
\* on with a separator after them
AncestorsOf(targetPath) ==
    {p \in ConfiguredPaths :
        /\ authConfig[p] # Undefined
        /\ Len(p) < Len(targetPath)
        /\ SubSeq(targetPath, 1, Len(p)) = p
        /\ targetPath[Len(p) + 1] = Sep}

\* C32: findTokenForPath(targetPath) returns the token of the exact configured path
\* when there is one; otherwise the token of the longest configured path that is an
\* ancestor directory of targetPath; otherwise the value of GITHUB_TOKEN; otherwise
\* null. A configured token comes before the environment.
C32_FindTokenForPath ==
    [][\A c \in AuthCallIds :
          Returns(c, "findTokenForPath") =>
              LET path == authCalls[c].path
                  exact == IF path \in ConfiguredPaths THEN authConfig[path]
                           ELSE Undefined
                  ancestors == AncestorsOf(path)
              IN authCalls'[c].ret =
                     CASE exact # Undefined -> exact
                       [] exact = Undefined /\ ancestors # {} ->
                              authConfig[CHOOSE p \in ancestors :
                                            \A q \in ancestors : Len(q) <= Len(p)]
                       [] OTHER -> EnvOrNull
      ]_vars

\* /foo/bar has no token, /foo has one, and GITHUB_TOKEN is set
C32_Witness ==
    \E c \in AuthCallIds :
        /\ authCalls[c].op = "findTokenForPath" /\ authCalls[c].at = "done"
        /\ authCalls[c].path = FooBar
        /\ authConfig[FooBar] = Undefined
        /\ authConfig[Foo] = "t1"
        /\ authConfig[FooDashBar] = "t2"
        /\ authEnv = "env-token"
        /\ authCalls[c].ret = "t1"

\* C39: when setToken calls for different paths overlap and all of them have
\* completed, the config has for each path the token that was set for it, and so has
\* the saved config file.
C39_NoTokenUpdateLost ==
    (/\ \A c \in AuthCallIds : authCalls[c].op = "setToken" /\ authCalls[c].at = "done"
     /\ \A c, d \in AuthCallIds : c # d => authCalls[c].path # authCalls[d].path)
    => \A c \in AuthCallIds :
          /\ GetTokenOf(authConfig, authEnv, authCalls[c].path) = authCalls[c].token
          /\ authFile.exists
          /\ authFile.projects[authCalls[c].path] = authCalls[c].token

----------------------------------------------------------------------------
(* Properties of the plan events and of approvals of different features *)

PlanEventType(op) ==
    CASE op = "emitApprovalRequired" -> "plan_approval_required"
      [] op = "emitApproved" -> "plan_approved"
      [] op = "emitRejected" -> "plan_rejected"
      [] op = "emitAutoApproved" -> "plan_auto_approved"
      [] op = "emitRevisionRequested" -> "plan_revision_requested"
      [] OTHER -> "none"

\* C33: every plan event the gate emits (approval required, approved, rejected,
\* auto-approved, revision requested) is published on the auto-mode event channel
\* with its type, the featureId and the projectPath it was emitted for, and the step
\* that emits it changes neither the pending-approval map nor any waiter's promise.
C33_PlanEventsArePublished ==
    [][emitted' # emitted =>
          /\ emitted'.channel = EventChannel
          /\ {"type", "featureId", "projectPath"} \subseteq DOMAIN emitted'.payload
          /\ emitted'.payload.type = PlanEventType(emitted'.op)
          /\ emitted'.payload.type # "none"
          /\ emitted'.payload.featureId = emitted'.featureId
          /\ emitted'.payload.projectPath = emitted'.projectPath
          /\ UNCHANGED <<pendingApprovals, promises, settleCalls>>
      ]_vars

\* a revision request was emitted for a feature whose waiter is suspended
C33_Witness ==
    /\ emitted.op = "emitRevisionRequested"
    /\ emitted.payload.feedback = "fb"
    /\ MapHas(pendingApprovals, emitted.featureId)
    /\ Suspended(MapGet(pendingApprovals, emitted.featureId).waiter)

\* the entry of featureId g and the promises of the callers that registered g
EntryOf(m, g) == IF MapHas(m, g) THEN <<MapGet(m, g)>> ELSE <<>>

\* C34: pending approvals of different featureIds are independent: resolve(f) and
\* cancel(f) neither remove, replace nor settle the entry of another featureId g,
\* and waitForApproval for f leaves the entry of g as it is.
C34_FeaturesAreIndependent ==
    [][\A f, g \in Features :
          (f # g /\ lastCall'.featureId = f
                 /\ lastCall'.op \in {"resolve", "cancel", "waitForApproval"}) =>
              /\ EntryOf(pendingApprovals', g) = EntryOf(pendingApprovals, g)
              /\ \A w \in WaitersOf(g) :
                    promises'[w] = promises[w] /\ settleCalls'[w] = settleCalls[w]
      ]_vars

\* both features waited; f2 was resolved first and f1 after it
C34_Witness ==
    /\ IsCall(lastCall, "resolve", "f1") /\ lastCall.found
    /\ prevResolved = "f2"
    /\ \A f \in Features : \E w \in WaitersOf(f) : promises[w].state = "fulfilled"

----------------------------------------------------------------------------
(* Properties of the value processStream returns *)

\* C35: every StreamResult that processStream returns has success = true and no
\* error; a failure is recorded only together with a raised error, also when the
\* stream or a handler raises.
C35_ReturnedResultIsSuccess ==
    /\ outcome.kind = "returned" =>
          outcome.value.success = TRUE /\ outcome.value.error = Undefined
    /\ (success = FALSE \/ errorMessage # Undefined) => outcome.kind = "threw"

\* processStream returned after the last message, with callbacks made
C35_Witness ==
    /\ outcome.kind = "returned"
    /\ consumed = MaxMsgs
    /\ calls # <<>>
    /\ outcome.value.success

\* the loop takes a result message whose subtype is not success
TakesFailureResult ==
    /\ consumed' = consumed + 1
    /\ lastMsg'.type = "result"
    /\ lastMsg'.subtype # "success"

\* C36: a result message whose subtype is not success is ignored: no callback is
\* invoked for it, nothing is raised, the result field is not set and the loop goes
\* on; a stream that ends after it without error message returns success = true.
C36_FailureResultIsIgnored ==
    [][/\ TakesFailureResult =>
             /\ calls' = calls
             /\ resultMessage' = resultMessage
             /\ success' = success /\ errorMessage' = errorMessage
             /\ outcome' = outcome /\ outcome'.kind = "running"
             /\ genState' = "open"
       /\ (outcome'.kind = "returned" /\ lastMsg'.type = "result"
               /\ lastMsg'.subtype # "success")
          => outcome'.value.success = TRUE
      ]_vars

\* the only message was a failure result; processStream returned without a result
C36_Witness ==
    /\ outcome.kind = "returned"
    /\ consumed = 1
    /\ lastMsg.type = "result" /\ lastMsg.subtype = "error_max_turns"
    /\ {"onComplete", "onError"} \subseteq handlers
    /\ calls = <<>>
    /\ outcome.value.success
    /\ outcome.value.result = Undefined

----------------------------------------------------------------------------
(* Properties of the provider's environment handling *)

NoQueryInFlight == \A q \in QueryIds : queries[q].state # "streaming"

\* C38: when no executeQuery call is in flight, every environment variable has the
\* value it had before the first call, or is absent if it was absent then; calls
\* that overlapped included.
C38_EnvRestored ==
    NoQueryInFlight => processEnv = envAtStart

====
